---- MODULE Spec2Model ----
(***************************************************************************)
(* The rendering engine of @papit/core: the html tagged template function  *)
(* with its compile cache and value store, descriptor extraction,          *)
(* TemplateInstance, and the Part classes (AttributePart, EventPart,       *)
(* ValuePart, NestedPart, keyed ListPart), over an explicit model of the   *)
(* DOM tree the engine mutates.                                            *)
(*                                                                         *)
(* The heap is threaded through the operators as a record w ("world"):     *)
(*   w.dom             node id -> node (type, data, parent, children, ...) *)
(*   w.parts           part id -> Part object                              *)
(*   w.insts           instance id -> TemplateInstance object              *)
(*   w.cachedElements  literal -> compiled root (0: not compiled)          *)
(*   w.metadataMap     node id -> value array stored by html()             *)
(*   w.log             what the current call did (DOM mutations, applies)  *)
(*   w.threw           an exception is propagating out of the current call *)
(*   w.ret             the value returned by the last function call        *)
(* An operator that models a method takes w and returns the w after it.    *)
(***************************************************************************)
EXTENDS Integers, Sequences, FiniteSets, TLC

VARIABLES
  dom, parts, insts, cachedElements, metadataMap,  \* the heap
  log,       \* what the last call did
  threw,     \* the last call ended with an exception
  returned,  \* the nodes html() has returned so far
  tops,      \* the live instances constructed by the caller (not by a NestedPart)
  lastCall,  \* the last call made and its arguments
  calls,     \* the number of calls made so far
  list,      \* the ListPart under test (0: none)
  collided,  \* some ListPart.apply so far met two items with one key
  now,       \* the clock
  timers,    \* the timers setTimeout has created, by id
  timer,     \* the `timer` variable of the debounced function under test
  callLog,   \* the calls of the debounced function so far
  executed,  \* the runs of its `execute` so far
  elems,     \* the custom elements
  prop       \* the decorated property under test

\* What the calls on the template engine alone leave untouched
outside == <<now, timers, timer, callLog, executed, elems, prop>>

vars == <<dom, parts, insts, cachedElements, metadataMap, log, threw,
          returned, tops, lastCall, calls, list, collided, outside>>

(***************************************************************************)
(* Bounds of the model.                                                    *)
(***************************************************************************)
MaxCalls == 7
MaxListCalls == 3
MaxPartCalls == 3
MaxCompileCalls == 3
MaxDebounceCalls == 3
MaxTime == 5
\* The debounce delay, in ticks of the clock
Delay == 2
MaxPropCalls == 3
MaxElemCalls == 3

(***************************************************************************)
(* JavaScript values.  Objects and arrays carry a reference identity       *)
(* (ref): === on them is identity, which is equality of these records.     *)
(***************************************************************************)
Null == [t |-> "null"]
Undefined == [t |-> "undefined"]
Str(s) == [t |-> "string", s |-> s]
Num(n) == [t |-> "number", n |-> n]
Bool(b) == [t |-> "boolean", b |-> b]
Fn(f) == [t |-> "function", f |-> f]
NodeRef(id) == [t |-> "node", id |-> id]
Obj(ref, key) == [t |-> "object", ref |-> ref, key |-> key]
Arr(ref, items) == [t |-> "array", ref |-> ref, items |-> items]

\* !!v
Truthy(v) ==
  CASE v.t = "null" -> FALSE
    [] v.t = "undefined" -> FALSE
    [] v.t = "string" -> v.s # ""
    [] v.t = "number" -> v.n # 0
    [] v.t = "boolean" -> v.b
    [] OTHER -> TRUE

\* v == 0 (loose equality), for the primitive types; objects are truthy and
\* never reach the comparison in `!v && v != 0`
LooseEqZero(v) ==
  CASE v.t = "number" -> v.n = 0
    [] v.t = "string" -> v.s \in {"", "0"}
    [] v.t = "boolean" -> ~v.b
    [] OTHER -> FALSE

\* v == null (loose): null or undefined
IsNullish(v) == v.t \in {"null", "undefined"}

RECURSIVE JoinItems(_, _)
\* String(v)
ToStr(v) ==
  CASE v.t = "string" -> v.s
    [] v.t = "number" -> ToString(v.n)
    [] v.t = "boolean" -> IF v.b THEN "true" ELSE "false"
    [] v.t = "null" -> "null"
    [] v.t = "undefined" -> "undefined"
    [] v.t = "array" -> JoinItems(v.items, 1)
    [] v.t = "function" -> "function"
    [] v.t = "node" -> "[object HTMLElement]"
    [] OTHER -> "[object Object]"

\* Array.prototype.join(","): null and undefined items give the empty string
JoinItems(items, i) ==
  IF i > Len(items) THEN ""
  ELSE LET s == IF IsNullish(items[i]) THEN "" ELSE
                 IF items[i].t = "array" THEN "" ELSE
                 CASE items[i].t = "string" -> items[i].s
                   [] items[i].t = "number" -> ToString(items[i].n)
                   [] items[i].t = "boolean" -> IF items[i].b THEN "true" ELSE "false"
                   [] items[i].t = "function" -> "function"
                   [] items[i].t = "node" -> "[object HTMLElement]"
                   [] OTHER -> "[object Object]"
       IN IF i = Len(items) THEN s ELSE s \o "," \o JoinItems(items, i + 1)

(***************************************************************************)
(* Sequences.                                                              *)
(***************************************************************************)
IndexOf(s, x) == CHOOSE i \in 1..Len(s) : s[i] = x /\ \A j \in 1..(i - 1) : s[j] # x
Without(s, x) == SelectSeq(s, LAMBDA y : y # x)
InsertAt(s, i, x) == SubSeq(s, 1, i - 1) \o <<x>> \o SubSeq(s, i, Len(s))
Range(s) == {s[i] : i \in 1..Len(s)}

(***************************************************************************)
(* The DOM.  A node is                                                     *)
(*   type      "element" | "comment" | "text"                              *)
(*   tag       the element's tag ("" otherwise)                            *)
(*   data      nodeValue of a comment or text node ("" for an element)     *)
(*   parent    parentNode (0: null)                                        *)
(*   children  childNodes, in document order                               *)
(*   attrs     the attributes, in order: <<[name, value], ...>>            *)
(*   listeners the registered listeners: a set of <<event, function>>      *)
(*   isTemplateRoot, manualKey   the expando properties the engine sets    *)
(***************************************************************************)
MarkerValue == "<!--marker-->"

MkNode(type, tag, data, attrs) ==
  [type |-> type, tag |-> tag, data |-> data, parent |-> 0, children |-> <<>>,
   attrs |-> attrs, listeners |-> {}, isTemplateRoot |-> FALSE,
   manualKey |-> Undefined]

Emit(w, e) == [w EXCEPT !.log = Append(@, e)]

\* const v = ...; F(v): the result of one call, named once and used in F
With(v, F(_)) == F(v)

\* throw: the exception propagates (every caller checks w.threw)
Throw(w) == Emit([w EXCEPT !.threw = TRUE], [ev |-> "throw"])

\* document.createElement / createComment / createTextNode: the new node is w.ret
CreateNode(w, n) == [w EXCEPT !.dom = Append(@, n), !.ret = Len(w.dom) + 1]

\* parent.removeChild(child)
RemoveChild(w, parent, child) ==
  Emit([w EXCEPT !.dom[parent].children = Without(@, child),
                 !.dom[child].parent = 0],
       [ev |-> "removeChild", node |-> child, parent |-> parent])

RECURSIVE Contains(_, _, _)
\* node.contains(other): other is node or a descendant of node
Contains(d, node, other) ==
  IF other = node THEN TRUE
  ELSE IF d[other].parent = 0 THEN FALSE
  ELSE Contains(d, node, d[other].parent)

\* parent.insertBefore(node, ref): a node that has a parent is removed from it;
\* a node that contains parent is refused with a HierarchyRequestError
InsertBefore(w, parent, node, ref) ==
  IF Contains(w.dom, node, parent) THEN Throw(w)
  ELSE LET old == w.dom[node].parent
           w1 == IF old # 0 THEN RemoveChild(w, old, node) ELSE w
           pos == IndexOf(w1.dom[parent].children, ref)
       IN Emit([w1 EXCEPT !.dom[parent].children = InsertAt(@, pos, node),
                          !.dom[node].parent = parent],
               [ev |-> "insertBefore", node |-> node, parent |-> parent])

HasAttribute(n, name) == \E i \in 1..Len(n.attrs) : n.attrs[i].name = name

\* el.getAttribute(name): the value, or null
GetAttribute(n, name) ==
  IF HasAttribute(n, name)
  THEN Str(n.attrs[CHOOSE i \in 1..Len(n.attrs) : n.attrs[i].name = name].value)
  ELSE Null

\* el.setAttribute(name, value): the value is stored as a string
SetAttribute(w, el, name, v) ==
  LET n == w.dom[el]
      s == ToStr(v)
      as == IF HasAttribute(n, name)
            THEN [i \in 1..Len(n.attrs) |->
                    IF n.attrs[i].name = name THEN [name |-> name, value |-> s]
                    ELSE n.attrs[i]]
            ELSE Append(n.attrs, [name |-> name, value |-> s])
  IN Emit([w EXCEPT !.dom[el].attrs = as],
          [ev |-> "setAttribute", node |-> el, name |-> name, value |-> s])

\* el.removeAttribute(name): changes the element only when the attribute is there
RemoveAttribute(w, el, name) ==
  IF HasAttribute(w.dom[el], name)
  THEN Emit([w EXCEPT !.dom[el].attrs = SelectSeq(@, LAMBDA a : a.name # name)],
            [ev |-> "removeAttribute", node |-> el, name |-> name])
  ELSE w

\* A write of text.data that is lost
SetDataLost(w, node, s) == w

\* text.data = s
SetData(w, node, s) ==
  Emit([w EXCEPT !.dom[node].data = s], [ev |-> "data", node |-> node, value |-> s])

\* el.addEventListener(name, f): a listener already registered is not added again
AddEventListener(w, el, name, f) ==
  Emit([w EXCEPT !.dom[el].listeners = @ \cup {<<name, f>>}],
       [ev |-> "addEventListener", node |-> el, name |-> name, f |-> f])

\* el.removeEventListener(name, f)
RemoveEventListener(w, el, name, f) ==
  Emit([w EXCEPT !.dom[el].listeners = @ \ {<<name, f>>}],
       [ev |-> "removeEventListener", node |-> el, name |-> name, f |-> f])

\* The DOM mutations among the events of a log
IsMutation(e) ==
  e.ev \in {"removeChild", "insertBefore", "setAttribute", "removeAttribute", "data"}

RECURSIVE Walk(_, _)
\* The elements and comments under (and including) node, in document order:
\* the nodes a TreeWalker with SHOW_ELEMENT | SHOW_COMMENT visits
Walk(d, node) ==
  LET RECURSIVE Kids(_)
      Kids(i) == IF i > Len(d[node].children) THEN <<>>
                 ELSE Walk(d, d[node].children[i]) \o Kids(i + 1)
  IN IF d[node].type = "text" THEN <<>> ELSE <<node>> \o Kids(1)

(***************************************************************************)
(* Template literals.  A literal is the identity of one call site's        *)
(* TemplateStringsArray.  Strings(lit) are its static segments and         *)
(* Parsed(lit) the childNodes of the fragment the HTML parser builds from  *)
(* the segments joined with the marker: a preorder list of nodes, `up`     *)
(* the index of the parent in the list (0: a child of the fragment).       *)
(*   T   <div>${x}</div>                                                   *)
(*   A   <h1>${c}<b title=${t} onclick=${h}>x</b></h1>                     *)
(*   B   <p>${y}</p>                                                       *)
(*   I   <li key=${k}>${v}</li>                                            *)
(* and, for the shapes normalizeRoot tells apart,                          *)
(*   E   (the empty literal)            N   (one blank)                    *)
(*   X   hello                          S   ${x}                           *)
(*   W   \n<p>${y}</p>\n                 M   <i>a</i>${x} <u>c</u>          *)
(***************************************************************************)
Literals == {"T", "A", "B", "I", "E", "N", "X", "S", "W", "M"}

Strings(lit) ==
  CASE lit = "T" -> <<"<div>", "</div>">>
    [] lit = "A" -> <<"<h1>", "<b title=", " onclick=", ">x</b></h1>">>
    [] lit = "B" -> <<"<p>", "</p>">>
    [] lit = "I" -> <<"<li key=", ">", "</li>">>
    [] lit = "E" -> <<"">>
    [] lit = "N" -> <<" ">>
    [] lit = "X" -> <<"hello">>
    [] lit = "S" -> <<"", "">>
    [] lit = "W" -> <<"\n<p>", "</p>\n">>
    [] lit = "M" -> <<"<i>a</i>", " <u>c</u>">>

\* The number of dynamic slots of a literal
Arity(lit) == Len(Strings(lit)) - 1

BpElement(tag, attrs, up) ==
  [type |-> "element", tag |-> tag, data |-> "", attrs |-> attrs, up |-> up]
BpComment(data, up) ==
  [type |-> "comment", tag |-> "", data |-> data, attrs |-> <<>>, up |-> up]
BpText(data, up) ==
  [type |-> "text", tag |-> "", data |-> data, attrs |-> <<>>, up |-> up]
MarkerAttr(name) == [name |-> name, value |-> MarkerValue]

Parsed(lit) ==
  CASE lit = "T" -> <<BpElement("div", <<>>, 0), BpComment("marker", 1)>>
    [] lit = "A" -> <<BpElement("h1", <<>>, 0), BpComment("marker", 1),
                      BpElement("b", <<MarkerAttr("title"), MarkerAttr("onclick")>>, 1),
                      BpText("x", 3)>>
    [] lit = "B" -> <<BpElement("p", <<>>, 0), BpComment("marker", 1)>>
    [] lit = "I" -> <<BpElement("li", <<MarkerAttr("key")>>, 0), BpComment("marker", 1)>>
    [] lit = "E" -> <<>>
    [] lit = "N" -> <<BpText(" ", 0)>>
    [] lit = "X" -> <<BpText("hello", 0)>>
    [] lit = "S" -> <<BpComment("marker", 0)>>
    [] lit = "W" -> <<BpText("\n", 0), BpElement("p", <<>>, 0), BpComment("marker", 2),
                      BpText("\n", 0)>>
    [] lit = "M" -> <<BpElement("i", <<>>, 0), BpText("a", 1), BpComment("marker", 0),
                      BpText(" ", 0), BpElement("u", <<>>, 0), BpText("c", 5)>>

\* A test that takes no text node for empty
IsEmptyTextNodeNever(n) == FALSE

\* isEmptyTextNode: a text node without a non-whitespace character
IsEmptyTextNode(n) == n.type = "text" /\ n.data \in {"", " ", "\n"}

\* template.innerHTML = ...; template.content.cloneNode(true): the nodes of
\* the fragment are created; w.ret is the list of the fragment's childNodes
ParseFragment(w, lit) ==
  With(Parsed(lit),
       LAMBDA bp :
         LET base == Len(w.dom)
             idx == [j \in 1..Len(bp) |-> j]
             KidsOf(k) == LET js == SelectSeq(idx, LAMBDA j : bp[j].up = k)
                          IN [i \in 1..Len(js) |-> base + js[i]]
             Node(k) == [MkNode(bp[k].type, bp[k].tag, bp[k].data, bp[k].attrs) EXCEPT
                           !.parent = IF bp[k].up = 0 THEN 0 ELSE base + bp[k].up,
                           !.children = KidsOf(k)]
         IN [w EXCEPT !.dom = @ \o [k \in 1..Len(bp) |-> Node(k)], !.ret = KidsOf(0)])

RECURSIVE AppendAll(_, _, _, _)
\* filteredChildren.forEach(node => wrapper.appendChild(node))
AppendAll(w, wrapper, nodes, i) ==
  IF i > Len(nodes) THEN w
  ELSE AppendAll([w EXCEPT !.dom[wrapper].children = Append(@, nodes[i]),
                           !.dom[nodes[i]].parent = wrapper],
                 wrapper, nodes, i + 1)

\* normalizeRoot(fragment): w.ret is the root element
NormalizeRoot(w, childNodes) ==
  LET filteredChildren == SelectSeq(childNodes, LAMBDA c : ~IsEmptyTextNode(w.dom[c]))
      wrapped == CreateNode(w, MkNode("element", "div", "", <<>>))
  IN IF Len(filteredChildren) = 0 THEN wrapped
     ELSE IF Len(filteredChildren) = 1 /\ w.dom[filteredChildren[1]].type = "element"
          THEN [w EXCEPT !.ret = filteredChildren[1]]
          ELSE [AppendAll(wrapped, wrapped.ret, filteredChildren, 1)
                  EXCEPT !.ret = wrapped.ret]

\* compile(templateStringArray): w.ret is the root
Compile(w, lit) ==
  IF w.cachedElements[lit] # 0
  THEN [w EXCEPT !.ret = w.cachedElements[lit]]
  ELSE LET w1 == ParseFragment(w, lit)
           w2 == NormalizeRoot(w1, w1.ret)
           root == w2.ret
       IN [w2 EXCEPT !.dom[root].isTemplateRoot = TRUE,
                     !.cachedElements[lit] = root]

MapSet(m, k, v) == [x \in DOMAIN m \cup {k} |-> IF x = k THEN v ELSE m[x]]

\* html(templateStringArray, ...values): w.ret is the returned root
Html(w, lit, values) ==
  LET w1 == Compile(w, lit)
  IN [w1 EXCEPT !.metadataMap = MapSet(@, w1.ret, values)]

\* getValues(element) is metadataMap.get(element): undefined without an entry
HasValues(w, el) == el \in DOMAIN w.metadataMap
GetValues(w, el) == w.metadataMap[el]

\* value instanceof Element
IsElement(w, v) == v.t = "node" /\ w.dom[v.id].type = "element"
\* value instanceof Element && value.__isTemplateRoot
IsTemplateRoot(w, v) == IsElement(w, v) /\ w.dom[v.id].isTemplateRoot

(***************************************************************************)
(* Part descriptors and their extraction.                                  *)
(***************************************************************************)
Descriptor(kind, marker, element, name) ==
  [kind |-> kind, marker |-> marker, element |-> element, name |-> name]

\* attr.name.match(/^(on|@)(?<name>.*)/) on the attribute names of the literals
EventMatch(name) ==
  CASE name = "onclick" -> [matched |-> TRUE, name |-> "click"]
    [] name = "@click" -> [matched |-> TRUE, name |-> "click"]
    [] name = "oninput" -> [matched |-> TRUE, name |-> "input"]
    [] OTHER -> [matched |-> FALSE, name |-> ""]

RECURSIVE DescAttrs(_, _, _, _)
\* for (const attr of Array.from(el.attributes)): w.ret collects the descriptors
DescAttrs(w, el, attrs, i) ==
  IF i > Len(attrs) THEN w
  ELSE IF attrs[i].value # MarkerValue THEN DescAttrs(w, el, attrs, i + 1)
  ELSE LET m == EventMatch(attrs[i].name)
       IN IF m.matched
          THEN DescAttrs([RemoveAttribute(w, el, attrs[i].name) EXCEPT
                            !.ret = Append(w.ret, Descriptor("event", 0, el, m.name))],
                         el, attrs, i + 1)
          ELSE DescAttrs([w EXCEPT
                            !.ret = Append(@, Descriptor("attr", 0, el, attrs[i].name))],
                         el, attrs, i + 1)

RECURSIVE DescNodes(_, _, _)
DescNodes(w, nodes, i) ==
  IF i > Len(nodes) THEN w
  ELSE LET n == w.dom[nodes[i]]
       IN IF n.type = "comment"
          THEN IF n.data = "list-marker"
               THEN DescNodes([w EXCEPT !.ret = Append(@, Descriptor("list", nodes[i], 0, ""))],
                              nodes, i + 1)
               ELSE IF n.data = "marker"
               THEN DescNodes([w EXCEPT !.ret = Append(@, Descriptor("value", nodes[i], 0, ""))],
                              nodes, i + 1)
               ELSE DescNodes(w, nodes, i + 1)
          ELSE DescNodes(DescAttrs(w, nodes[i], n.attrs, 1), nodes, i + 1)

\* getDescriptors(root): w.ret is the list of descriptors
GetDescriptors(w, root) == DescNodes([w EXCEPT !.ret = <<>>], Walk(w.dom, root), 1)

(***************************************************************************)
(* Part objects.  One record shape serves the five classes:                *)
(*   kind            "attr" | "event" | "value" | "nested" | "list"        *)
(*   marker          the anchor comment (value, nested, list)              *)
(*   element, name   the element and attribute/event name (attr, event)    *)
(*   value           AttributePart.value, EventPart.value, ValuePart.value *)
(*   node            ValuePart.node (0: null)                              *)
(*   nestedInstance  ValuePart.nestedInstance, a part id (0: null)         *)
(*   instance        NestedPart.instance, an instance id (0: null)         *)
(*   keyMap          ListPart.keyMap: <<[key, part, value], ...>> in       *)
(*                   insertion order                                       *)
(***************************************************************************)
NewPart(desc) ==
  [kind |-> desc.kind, marker |-> desc.marker, element |-> desc.element,
   name |-> desc.name, value |-> Null, node |-> 0, nestedInstance |-> 0,
   instance |-> 0, keyMap |-> <<>>]

\* partFactory(descriptor, helpers): the Part of the descriptor's kind; w.ret
\* is the new part
PartFactory(w, desc) ==
  [w EXCEPT !.parts = Append(@, NewPart(desc)), !.ret = Len(w.parts) + 1]

\* Map get / has / set / delete on a keyMap
MapHas(m, key) == \E i \in 1..Len(m) : m[i].key = key
MapGet(m, key) == m[CHOOSE i \in 1..Len(m) : m[i].key = key]
\* A set that keeps the entry a key already has
MapPutKeepFirst(m, e) == IF MapHas(m, e.key) THEN m ELSE Append(m, e)

MapPut(m, e) ==
  IF MapHas(m, e.key)
  THEN [i \in 1..Len(m) |-> IF m[i].key = e.key THEN e ELSE m[i]]
  ELSE Append(m, e)
MapDelete(m, key) == SelectSeq(m, LAMBDA e : e.key # key)

RECURSIVE ApplyPart(_, _, _, _), ClearPart(_, _), RemovePart(_, _),
          InstUpdate(_, _, _), InstRemove(_, _)

(***************************************************************************)
(* AttributePart                                                           *)
(***************************************************************************)
AttributeClear(w, p) == RemoveAttribute(w, w.parts[p].element, w.parts[p].name)

AttributeApply(w, p, value) ==
  IF value = w.parts[p].value THEN w
  ELSE LET w1 == [w EXCEPT !.parts[p].value = value]
           el == w.parts[p].element
       IN IF ~Truthy(value) /\ value # Str("") THEN AttributeClear(w1, p)
          ELSE SetAttribute(IF w.parts[p].name = "key"
                            THEN [w1 EXCEPT !.dom[el].manualKey = value]
                            ELSE w1,
                            el, w.parts[p].name, value)

AttributeRemove(w, p) == AttributeClear(w, p)

(***************************************************************************)
(* EventPart                                                               *)
(***************************************************************************)
EventClear(w, p) ==
  IF Truthy(w.parts[p].value)
  THEN RemoveEventListener(w, w.parts[p].element, w.parts[p].name, w.parts[p].value)
  ELSE w

\* An EventPart that attaches the new listener without detaching the old one
EventApplyNoDetach(w, p, value) ==
  [(IF Truthy(value)
    THEN AddEventListener(w, w.parts[p].element, w.parts[p].name, value)
    ELSE w) EXCEPT !.parts[p].value = value]

EventApply(w, p, value) ==
  LET w1 == EventClear(w, p)
      w2 == IF Truthy(value)
            THEN AddEventListener(w1, w.parts[p].element, w.parts[p].name, value)
            ELSE w1
  IN [w2 EXCEPT !.parts[p].value = value]

EventRemove(w, p) == EventClear(w, p)

(***************************************************************************)
(* ValuePart                                                               *)
(***************************************************************************)
\* this.marker.parentNode?.insertBefore(node, this.marker)
ValueInsert(w, p, node) ==
  LET marker == w.parts[p].marker
  IN IF w.dom[marker].parent = 0 THEN w
     ELSE InsertBefore(w, w.dom[marker].parent, node, marker)

\* A clear that detaches the held node but leaves the nested instance alone
ValueClearKeepNested(w, p) ==
  LET part == w.parts[p]
      w1 == IF part.node # 0 /\ w.dom[part.node].parent # 0
            THEN RemoveChild(w, w.dom[part.node].parent, part.node)
            ELSE w
  IN [w1 EXCEPT !.parts[p].node = 0, !.parts[p].value = Null]

ValueClear(w, p) ==
  LET part == w.parts[p]
      w1 == IF part.node # 0 /\ w.dom[part.node].parent # 0
            THEN RemoveChild(w, w.dom[part.node].parent, part.node)
            ELSE w
      w2 == [w1 EXCEPT !.parts[p].node = 0]
      w3 == IF part.nestedInstance # 0
            THEN [ClearPart(w2, part.nestedInstance) EXCEPT !.parts[p].nestedInstance = 0]
            ELSE w2
  IN [w3 EXCEPT !.parts[p].value = Null]

ValueApply(w, p, newValue) ==
  LET part == w.parts[p]
      w1 == [w EXCEPT !.parts[p].value = newValue]
      str == IF ~IsNullish(newValue) THEN ToStr(newValue) ELSE ""
  IN IF ~Truthy(newValue) /\ ~LooseEqZero(newValue) THEN ValueClear(w, p)
     ELSE IF newValue = part.value THEN w
     ELSE IF IsTemplateRoot(w, newValue)
     THEN IF part.nestedInstance = 0
          THEN With(PartFactory(ValueClear(w1, p), Descriptor("nested", part.marker, 0, "")),
                    LAMBDA f : ApplyPart([f EXCEPT !.parts[p].nestedInstance = f.ret],
                                         f.ret, newValue, Undefined))
          ELSE ApplyPart(w1, part.nestedInstance, newValue, Undefined)
     ELSE IF newValue.t = "node"
     THEN IF newValue.id = part.node THEN w1
          ELSE ValueInsert([ValueClear(w1, p) EXCEPT !.parts[p].node = newValue.id],
                           p, newValue.id)
     ELSE IF part.node # 0 /\ w.dom[part.node].type = "text"
          THEN SetData(w1, part.node, str)
          ELSE With(CreateNode(ValueClear(w1, p), MkNode("text", "", str, <<>>)),
                    LAMBDA n : ValueInsert([n EXCEPT !.parts[p].node = n.ret], p, n.ret))

\* this.marker.parentNode?.removeChild(this.marker)
RemoveMarker(w, p) ==
  LET marker == w.parts[p].marker
  IN IF w.dom[marker].parent = 0 THEN w
     ELSE RemoveChild(w, w.dom[marker].parent, marker)

ValueRemove(w, p) ==
  With(ValueClear(w, p),
       LAMBDA w1 : RemoveMarker(IF w1.parts[p].nestedInstance # 0
                                THEN RemovePart(w1, w1.parts[p].nestedInstance)
                                ELSE w1,
                                p))

(***************************************************************************)
(* TemplateInstance                                                        *)
(***************************************************************************)
RECURSIVE MakeParts(_, _, _, _)
\* descriptors.map(descriptor => this.partFactory(descriptor, helpers))
MakeParts(w, descriptors, k, made) ==
  IF k > Len(descriptors) THEN [w EXCEPT !.ret = made]
  ELSE LET f == PartFactory(w, descriptors[k])
       IN MakeParts(f, descriptors, k + 1, Append(made, f.ret))

\* A TemplateInstance that applies its Parts in plain document order
IndexListDocOrder(descriptors) == [i \in 1..Len(descriptors) |-> i]

\* this.indexList = [...attributes, ...rest]
IndexList(descriptors) ==
  LET idx == [i \in 1..Len(descriptors) |-> i]
      attributes == SelectSeq(idx, LAMBDA i : descriptors[i].kind \in {"attr", "event"})
      rest == SelectSeq(idx, LAMBDA i : descriptors[i].kind \notin {"attr", "event"})
  IN attributes \o rest

\* new TemplateInstance(root, partFactory): w.ret is the new instance
NewTemplateInstance(w, root) ==
  With(GetDescriptors(w, root),
       LAMBDA d : With(MakeParts(d, d.ret, 1, <<>>),
                       LAMBDA m : [m EXCEPT !.insts = Append(@, [root |-> root, parts |-> m.ret,
                                                                 indexList |-> IndexList(d.ret)]),
                                            !.ret = Len(m.insts) + 1]))

RECURSIVE UpdateLoop(_, _, _, _)
\* for (const i of this.indexList) this.parts[i].apply(values[i])
UpdateLoop(w, inst, values, k) ==
  IF w.threw \/ k > Len(w.insts[inst].indexList) THEN w
  ELSE LET i == w.insts[inst].indexList[k]
           v == IF i <= Len(values) THEN values[i] ELSE Undefined
       IN UpdateLoop(ApplyPart(w, w.insts[inst].parts[i], v, Undefined),
                     inst, values, k + 1)

\* An update that rejects a value array shorter than the Part list
InstUpdateStrict(w, inst, values) ==
  IF Len(values) < Len(w.insts[inst].parts)
  THEN Throw(Emit(w, [ev |-> "update", inst |-> inst, values |-> values]))
  ELSE UpdateLoop(Emit(w, [ev |-> "update", inst |-> inst, values |-> values]),
                  inst, values, 1)

InstUpdate(w, inst, values) ==
  UpdateLoop(Emit(w, [ev |-> "update", inst |-> inst, values |-> values]),
             inst, values, 1)

RECURSIVE RemoveAll(_, _, _)
\* parts.forEach(part => part.remove())
RemoveAll(w, ps, k) ==
  IF w.threw \/ k > Len(ps) THEN w
  ELSE RemoveAll(RemovePart(w, ps[k]), ps, k + 1)

InstRemove(w, inst) ==
  With(RemoveAll(w, w.insts[inst].parts, 1),
       LAMBDA w1 : IF w1.threw \/ w1.dom[w.insts[inst].root].parent = 0 THEN w1
                   ELSE RemoveChild(w1, w1.dom[w.insts[inst].root].parent, w.insts[inst].root))

(***************************************************************************)
(* NestedPart                                                              *)
(***************************************************************************)
NestedClear(w, p) ==
  IF w.parts[p].instance # 0
  THEN With(InstRemove(w, w.parts[p].instance),
            LAMBDA r : IF r.threw THEN r ELSE [r EXCEPT !.parts[p].instance = 0])
  ELSE w

\* this.marker.parentNode!.insertBefore(newValue, this.marker), then
\* if (values) this.instance.update(values), on the instance just created
NestedInsert(w, p, root, inst) ==
  IF w.dom[w.parts[p].marker].parent = 0 THEN Throw(w)
  ELSE With(InsertBefore(w, w.dom[w.parts[p].marker].parent, root, w.parts[p].marker),
            LAMBDA w2 : IF w2.threw \/ ~HasValues(w2, root) THEN w2
                        ELSE InstUpdate(w2, inst, GetValues(w2, root)))

NestedApply(w, p, newValue) ==
  IF ~IsTemplateRoot(w, newValue) THEN NestedClear(w, p)
  ELSE IF w.parts[p].instance = 0
  THEN With(NewTemplateInstance(w, newValue.id),
            LAMBDA c : NestedInsert([c EXCEPT !.parts[p].instance = c.ret],
                                    p, newValue.id, c.ret))
  ELSE IF HasValues(w, newValue.id)
  THEN InstUpdate(w, w.parts[p].instance, GetValues(w, newValue.id))
  ELSE w

NestedRemove(w, p) ==
  LET w1 == NestedClear(w, p)
  IN IF w1.threw THEN w1 ELSE RemoveMarker(w1, p)

(***************************************************************************)
(* ListPart (keyed)                                                        *)
(***************************************************************************)
\* value.key: a TypeError on null and undefined, undefined where there is none
KeyProperty(value) == IF value.t = "object" THEN value.key ELSE Undefined

\* getKey(value, index): [threw, key]
GetKey(w, value, index) ==
  IF IsNullish(value) THEN [threw |-> TRUE, key |-> Undefined]
  ELSE IF Truthy(KeyProperty(value)) THEN [threw |-> FALSE, key |-> KeyProperty(value)]
  ELSE LET attrValue == IF IsElement(w, value)
                        THEN GetAttribute(w.dom[value.id], "key")
                        ELSE Null
       IN IF IsElement(w, value) /\ Truthy(attrValue) /\ attrValue # Str(MarkerValue)
          THEN [threw |-> FALSE, key |-> attrValue]
          ELSE [threw |-> FALSE, key |-> Num(index)]

RECURSIVE RemoveEntries(_, _, _)
\* for (const entry of map.values()) entry.part.remove()
RemoveEntries(w, entries, k) ==
  IF w.threw \/ k > Len(entries) THEN w
  ELSE RemoveEntries(RemovePart(w, entries[k].part), entries, k + 1)

ListClear(w, p) ==
  With(RemoveEntries(w, w.parts[p].keyMap, 1),
       LAMBDA w1 : IF w1.threw THEN w1 ELSE [w1 EXCEPT !.parts[p].keyMap = <<>>])

\* A creation that puts the new anchor in front of the parent's children
ListCreateFirst(w, p, item, key) ==
  With(CreateNode(w, MkNode("comment", "", "item-marker", <<>>)),
       LAMBDA c :
         With(PartFactory(IF c.dom[c.parts[p].marker].parent = 0 THEN c
                          ELSE InsertBefore(c, c.dom[c.parts[p].marker].parent, c.ret,
                                            c.dom[c.dom[c.parts[p].marker].parent].children[1]),
                          Descriptor("value", c.ret, 0, "")),
              LAMBDA f : [ApplyPart(f, f.ret, item, Undefined) EXCEPT
                            !.ret = [key |-> key, part |-> f.ret, value |-> item]]))

\* Create new part: the else branch of the loop; w.ret is the new entry
ListCreate(w, p, item, key) ==
  With(CreateNode(w, MkNode("comment", "", "item-marker", <<>>)),
       LAMBDA c :
         With(PartFactory(IF c.dom[c.parts[p].marker].parent = 0 THEN c
                          ELSE InsertBefore(c, c.dom[c.parts[p].marker].parent,
                                            c.ret, c.parts[p].marker),
                          Descriptor("value", c.ret, 0, "")),
              LAMBDA f : [ApplyPart(f, f.ret, item, Undefined) EXCEPT
                            !.ret = [key |-> key, part |-> f.ret, value |-> item]]))

\* A reuse that applies the item without comparing it with the last one
ListReuseAlways(w, p, item, key) ==
  With(MapGet(w.parts[p].keyMap, key),
       LAMBDA entry :
         With([ApplyPart(w, entry.part, item, entry.value) EXCEPT
                 !.ret = [entry EXCEPT !.value = item]],
              LAMBDA w1 : IF w1.threw THEN w1
                          ELSE [w1 EXCEPT !.parts[p].keyMap = MapDelete(@, key)]))

\* Reuse old part: the then branch of the loop; w.ret is the entry
ListReuse(w, p, item, key) ==
  With(MapGet(w.parts[p].keyMap, key),
       LAMBDA entry :
         With(IF entry.value # item
              THEN [ApplyPart(w, entry.part, item, entry.value) EXCEPT
                      !.ret = [entry EXCEPT !.value = item]]
              ELSE [w EXCEPT !.ret = entry],
              LAMBDA w1 : IF w1.threw THEN w1
                          ELSE [w1 EXCEPT !.parts[p].keyMap = MapDelete(@, key)]))

\* An apply that forgets the leftovers without removing them
KeepLeftovers(w, p, newKeyMap) == [w EXCEPT !.parts[p].keyMap = newKeyMap]

\* Remove leftovers (no longer present in new list), then
\* this.keyMap = newKeyMap
RemoveLeftovers(w, p, newKeyMap) ==
  With(RemoveEntries(w, w.parts[p].keyMap, 1),
       LAMBDA w1 : IF w1.threw THEN w1 ELSE [w1 EXCEPT !.parts[p].keyMap = newKeyMap])

RECURSIVE ListLoop(_, _, _, _, _)
\* for (let index = 0; index < newValue.length; index++), then the removal of
\* the leftovers
ListLoop(w, p, items, index, newKeyMap) ==
  IF w.threw THEN w
  ELSE IF index >= Len(items) THEN RemoveLeftovers(w, p, newKeyMap)
  ELSE With(GetKey(w, items[index + 1], index),
            LAMBDA k :
              IF k.threw THEN Throw(w)
              ELSE With(IF MapHas(w.parts[p].keyMap, k.key)
                        THEN ListReuse(Emit(w, [ev |-> "key", index |-> index,
                                                item |-> items[index + 1], key |-> k.key]),
                                       p, items[index + 1], k.key)
                        ELSE ListCreate(Emit(w, [ev |-> "key", index |-> index,
                                                 item |-> items[index + 1], key |-> k.key]),
                                        p, items[index + 1], k.key),
                        LAMBDA w1 : IF w1.threw THEN w1
                                    ELSE ListLoop(w1, p, items, index + 1,
                                                  MapPut(newKeyMap, w1.ret))))

ListApply(w, p, newValue) ==
  IF newValue.t # "array" THEN ListClear(w, p)
  ELSE ListLoop(w, p, newValue.items, 0, <<>>)

ListRemove(w, p) ==
  LET w1 == ListClear(w, p)
  IN IF w1.threw THEN w1 ELSE RemoveMarker(w1, p)

(***************************************************************************)
(* Part.apply / clear / remove: dispatch on the class of the part.         *)
(***************************************************************************)
ApplyPart(w, p, value, old) ==
  LET w0 == Emit(w, [ev |-> "apply", part |-> p, value |-> value, old |-> old])
      kind == w.parts[p].kind
  IN CASE kind = "attr" -> AttributeApply(w0, p, value)
       [] kind = "event" -> EventApply(w0, p, value)
       [] kind = "value" -> ValueApply(w0, p, value)
       [] kind = "nested" -> NestedApply(w0, p, value)
       [] kind = "list" -> ListApply(w0, p, value)

ClearPart(w, p) ==
  LET kind == w.parts[p].kind
  IN CASE kind = "attr" -> AttributeClear(w, p)
       [] kind = "event" -> EventClear(w, p)
       [] kind = "value" -> ValueClear(w, p)
       [] kind = "nested" -> NestedClear(w, p)
       [] kind = "list" -> ListClear(w, p)

RemovePart(w, p) ==
  LET w0 == Emit(w, [ev |-> "remove", part |-> p])
      kind == w.parts[p].kind
  IN CASE kind = "attr" -> AttributeRemove(w0, p)
       [] kind = "event" -> EventRemove(w0, p)
       [] kind = "value" -> ValueRemove(w0, p)
       [] kind = "nested" -> NestedRemove(w0, p)
       [] kind = "list" -> ListRemove(w0, p)

(***************************************************************************)
(* The state machine: the calls a user of the engine makes.                *)
(***************************************************************************)
World ==
  [dom |-> dom, parts |-> parts, insts |-> insts,
   cachedElements |-> cachedElements, metadataMap |-> metadataMap,
   log |-> <<>>, threw |-> FALSE, ret |-> 0]

Commit(w) ==
  /\ dom' = w.dom
  /\ parts' = w.parts
  /\ insts' = w.insts
  /\ cachedElements' = w.cachedElements
  /\ metadataMap' = w.metadataMap
  /\ log' = w.log
  /\ threw' = w.threw

\* No timer, no element, no decorated property
NoTimers ==
  /\ now = 0
  /\ timers = <<>>
  /\ timer = 0
  /\ callLog = <<>>
  /\ executed = <<>>

NoOutside ==
  /\ NoTimers
  /\ elems = <<>>
  /\ prop = <<>>

\* Nothing compiled, no node, no Part
FreshHeap ==
  /\ dom = <<>>
  /\ parts = <<>>
  /\ insts = <<>>
  /\ cachedElements = [l \in Literals |-> 0]
  /\ metadataMap = <<>>
  /\ log = <<>>
  /\ threw = FALSE
  /\ returned = {}
  /\ tops = {}
  /\ lastCall = [op |-> "init"]
  /\ calls = 0
  /\ collided = FALSE

EmptyHeap == NoOutside /\ FreshHeap

Init == EmptyHeap /\ list = 0

\* The literal a compiled root was compiled from
LiteralOf(ce, root) == CHOOSE l \in Literals : ce[l] = root
IsCompiledRoot(ce, root) == \E l \in Literals : ce[l] = root

\* The template roots html() has returned for the literals in lits
RootsOf(lits) ==
  {r \in returned : IsCompiledRoot(cachedElements, r)
                    /\ LiteralOf(cachedElements, r) \in lits}

\* The value arrays the model passes to html() for each literal
SlotValues(lit) ==
  CASE lit = "T" -> {<<x>> : x \in {Null} \cup {NodeRef(r) : r \in RootsOf({"A", "B"})}}
    [] lit = "A" -> {<<Str("a"), Str("x"), Fn("f")>>}
    [] lit = "B" -> {<<y>> : y \in {Str("a"), Str("b")}}
    [] lit = "I" -> {<<k, v>> : k \in {Num(5), Num(7)}, v \in {Str("t")}}

\* html`...`
CallHtml(lit, values) ==
  /\ calls < MaxCalls
  /\ calls' = calls + 1
  /\ With(Html(World, lit, values),
          LAMBDA w : /\ Commit(w)
                     /\ returned' = returned \cup {w.ret}
                     /\ lastCall' = [op |-> "html", lit |-> lit, values |-> values,
                                     ret |-> w.ret])
  /\ UNCHANGED <<tops, list, collided, outside>>

\* new TemplateInstance(root, partFactory) on a node html() returned
Construct(root) ==
  /\ calls < MaxCalls
  /\ calls' = calls + 1
  /\ With(NewTemplateInstance(World, root),
          LAMBDA w : /\ Commit(w)
                     /\ tops' = tops \cup {w.ret}
                     /\ lastCall' = [op |-> "construct", root |-> root, inst |-> w.ret])
  /\ UNCHANGED <<returned, list, collided, outside>>

\* instance.update(getValues(root)), as the component's update() calls it
Update(inst) ==
  /\ calls < MaxCalls
  /\ calls' = calls + 1
  /\ HasValues(World, insts[inst].root)
  /\ LET values == GetValues(World, insts[inst].root)
         w == InstUpdate(World, inst, values)
     IN /\ Commit(w)
        /\ lastCall' = [op |-> "update", inst |-> inst, values |-> values]
  /\ UNCHANGED <<returned, tops, list, collided, outside>>

\* instance.remove(), after which the caller lets go of the instance
Remove(inst) ==
  /\ calls < MaxCalls
  /\ calls' = calls + 1
  /\ LET w == InstRemove(World, inst)
     IN /\ Commit(w)
        /\ lastCall' = [op |-> "remove", inst |-> inst]
  /\ tops' = tops \ {inst}
  /\ UNCHANGED <<returned, list, collided, outside>>

Next ==
  \/ \E lit \in {"T", "A", "B"} : \E values \in SlotValues(lit) : CallHtml(lit, values)
  \/ \E root \in returned : Construct(root)
  \/ \E inst \in tops : Update(inst)
  \/ \E inst \in tops : Remove(inst)

Spec == Init /\ [][Next]_vars

(***************************************************************************)
(* A second state machine: one keyed ListPart driven directly.  Its anchor *)
(* is a list-marker comment inside a detached <ul>.                        *)
(***************************************************************************)
ListHost ==
  LET ul == MkNode("element", "ul", "", <<>>)
      marker == MkNode("comment", "", "list-marker", <<>>)
  IN <<[ul EXCEPT !.children = <<2>>], [marker EXCEPT !.parent = 1]>>

InitList ==
  /\ NoOutside
  /\ dom = ListHost
  /\ parts = <<NewPart(Descriptor("list", 2, 0, ""))>>
  /\ insts = <<>>
  /\ cachedElements = [l \in Literals |-> 0]
  /\ metadataMap = <<>>
  /\ log = <<>>
  /\ threw = FALSE
  /\ returned = {}
  /\ tops = {}
  /\ lastCall = [op |-> "init"]
  /\ calls = 0
  /\ collided = FALSE
  /\ list = 1

\* The list items of the model: objects with a data-level key (two of them
\* with the same key, one with the key 0), a string, and the template root of
\* the item literal once html() has compiled it
ItemA == Obj(1, Str("a"))
ItemA2 == Obj(2, Str("a"))
ItemB == Obj(3, Str("b"))
ItemC == Obj(4, Str("c"))
ItemZero == Obj(5, Num(0))
ItemText == Str("x")

\* The arrays the model passes to ListPart.apply
ListInputs ==
  {<<>>, <<ItemA>>, <<ItemB>>, <<ItemA, ItemB>>, <<ItemB, ItemA>>,
   <<ItemB, ItemA2>>, <<ItemA, ItemA2>>, <<ItemA, ItemZero>>,
   <<ItemText>>, <<ItemText, ItemA>>,
   <<ItemA, ItemB, ItemC>>, <<ItemC, ItemA2, ItemB>>, <<ItemA, ItemB, ItemA2>>}
  \cup (IF cachedElements["I"] # 0
        THEN {<<NodeRef(cachedElements["I"])>>,
              <<ItemA, NodeRef(cachedElements["I"])>>}
        ELSE {})

\* The keys one apply call derived, in index order
KeysOf(lg) ==
  LET es == SelectSeq(lg, LAMBDA e : e.ev = "key")
  IN [i \in 1..Len(es) |-> es[i].key]

HasDuplicate(s) == \E i, j \in 1..Len(s) : i < j /\ s[i] = s[j]

\* html`<li key=${k}>${v}</li>`
ItemHtml(values) ==
  /\ calls < MaxListCalls
  /\ calls' = calls + 1
  /\ With(Html(World, "I", values),
          LAMBDA w : /\ Commit(w)
                     /\ returned' = returned \cup {w.ret}
                     /\ lastCall' = [op |-> "html", lit |-> "I", values |-> values,
                                     ret |-> w.ret])
  /\ UNCHANGED <<tops, list, collided, outside>>

\* listPart.apply(items)
ListApplyCall(items) ==
  /\ calls < MaxListCalls
  /\ calls' = calls + 1
  /\ With(ApplyPart(World, list, Arr(0, items), Undefined),
          LAMBDA w : /\ Commit(w)
                     /\ collided' = (collided \/ HasDuplicate(KeysOf(w.log)))
                     /\ lastCall' = [op |-> "listApply", items |-> items,
                                     keys |-> KeysOf(w.log)])
  /\ UNCHANGED <<returned, tops, list, outside>>

\* listPart.apply(null): not an array
ListClearCall ==
  /\ calls < MaxListCalls
  /\ calls' = calls + 1
  /\ LET w == ApplyPart(World, list, Null, Undefined)
     IN /\ Commit(w)
        /\ lastCall' = [op |-> "listClear"]
  /\ UNCHANGED <<returned, tops, list, collided, outside>>

NextList ==
  \/ \E values \in SlotValues("I") : ItemHtml(values)
  \/ \E items \in ListInputs : ListApplyCall(items)
  \/ ListClearCall

SpecList == InitList /\ [][NextList]_vars

(***************************************************************************)
(* A third state machine: the Parts of one instance driven directly.  The  *)
(* instance is built on html`<h1>${c}<b title=${t} onclick=${h}>x</b></h1>`*)
(* (a value slot, an attribute slot, an event slot); the values applied    *)
(* include the template html`<p>${y}</p>` and a plain <span> element.      *)
(***************************************************************************)
EmptyWorld ==
  [dom |-> <<>>, parts |-> <<>>, insts |-> <<>>,
   cachedElements |-> [l \in Literals |-> 0], metadataMap |-> <<>>,
   log |-> <<>>, threw |-> FALSE, ret |-> 0]

\* html`<h1>...`, new TemplateInstance(root), html`<p>${"b"}</p>`,
\* document.createElement("span")
PartHost ==
  With(Html(EmptyWorld, "A", <<Str("a"), Str("x"), Fn("f")>>),
       LAMBDA a : With(NewTemplateInstance(a, a.ret),
                       LAMBDA i : With(Html(i, "B", <<Str("b")>>),
                                       LAMBDA b : CreateNode(b, MkNode("element", "span",
                                                                       "", <<>>)))))

InitPart ==
  /\ NoOutside
  /\ dom = PartHost.dom
  /\ parts = PartHost.parts
  /\ insts = PartHost.insts
  /\ cachedElements = PartHost.cachedElements
  /\ metadataMap = PartHost.metadataMap
  /\ log = <<>>
  /\ threw = FALSE
  /\ returned = {PartHost.cachedElements["A"], PartHost.cachedElements["B"]}
  /\ tops = {1}
  /\ lastCall = [op |-> "init"]
  /\ calls = 0
  /\ collided = FALSE
  /\ list = 0

\* The Parts of the instance, and those of one kind
HostParts == Range(insts[1].parts)
PartsOfKind(kind) == {p \in HostParts : parts[p].kind = kind}

\* The plain element and the template root the model applies to the value slot
PlainNode == CHOOSE n \in 1..Len(dom) : dom[n].tag = "span"
InnerRoot == cachedElements["B"]

\* The values the model applies to a Part of each kind
PartValues(kind) ==
  CASE kind = "attr" -> {Null, Str(""), Str("foo"), Num(0)}
    [] kind = "event" -> {Null, Fn("f"), Fn("g")}
    [] kind = "value" -> {Null, Str(""), Str("a"), Num(0), Num(1), NodeRef(PlainNode),
                          NodeRef(InnerRoot), Arr(0, <<Str("a"), Str("b")>>)}

\* The value arrays the model passes to instance.update: of the arity of the
\* literal, and shorter
UpdateInputs ==
  {<<>>, <<Str("a")>>, <<Str("a"), Str("foo")>>, <<Str("b"), Str("foo"), Fn("g")>>}

\* part.apply(value)
PartApply(p, value) ==
  /\ calls < MaxPartCalls
  /\ calls' = calls + 1
  /\ With(ApplyPart(World, p, value, Undefined),
          LAMBDA w : /\ Commit(w)
                     /\ lastCall' = [op |-> "apply", part |-> p, value |-> value])
  /\ UNCHANGED <<returned, tops, list, collided, outside>>

\* part.clear()
PartClear(p) ==
  /\ calls < MaxPartCalls
  /\ calls' = calls + 1
  /\ With(ClearPart(World, p),
          LAMBDA w : /\ Commit(w)
                     /\ lastCall' = [op |-> "clear", part |-> p])
  /\ UNCHANGED <<returned, tops, list, collided, outside>>

\* part.remove()
PartRemove(p) ==
  /\ calls < MaxPartCalls
  /\ calls' = calls + 1
  /\ With(RemovePart(World, p),
          LAMBDA w : /\ Commit(w)
                     /\ lastCall' = [op |-> "remove", part |-> p])
  /\ UNCHANGED <<returned, tops, list, collided, outside>>

\* instance.update(values)
UpdateCall(values) ==
  /\ calls < MaxPartCalls
  /\ calls' = calls + 1
  /\ With(InstUpdate(World, 1, values),
          LAMBDA w : /\ Commit(w)
                     /\ lastCall' = [op |-> "update", inst |-> 1, values |-> values])
  /\ UNCHANGED <<returned, tops, list, collided, outside>>

\* Code outside the engine takes the anchor of Part p out of its parent
ForeignDetach(p) ==
  /\ calls < MaxPartCalls
  /\ calls' = calls + 1
  /\ dom[parts[p].marker].parent # 0
  /\ With(RemoveMarker(World, p),
          LAMBDA w : /\ Commit(w)
                     /\ lastCall' = [op |-> "detach", part |-> p])
  /\ UNCHANGED <<returned, tops, list, collided, outside>>

\* clear() and remove() are called on the event and the value Part only, so
\* that the attribute Part sees apply calls alone
NextPart ==
  \/ \E p \in HostParts : \E value \in PartValues(parts[p].kind) : PartApply(p, value)
  \/ \E p \in PartsOfKind("event") \cup PartsOfKind("value") : PartClear(p)
  \/ \E p \in PartsOfKind("event") \cup PartsOfKind("value") : PartRemove(p)
  \/ \E values \in UpdateInputs : UpdateCall(values)
  \/ \E p \in PartsOfKind("value") : ForeignDetach(p)

SpecPart == InitPart /\ [][NextPart]_vars

(***************************************************************************)
(* A fourth state machine: html called on literals of every shape that     *)
(* normalizeRoot tells apart.                                              *)
(***************************************************************************)
\* One value per slot of a literal
SomeValues(lit) == [i \in 1..Arity(lit) |-> Str("v")]

\* html`...` on any literal
CompileCall(lit) ==
  /\ calls < MaxCompileCalls
  /\ calls' = calls + 1
  /\ With(Html(World, lit, SomeValues(lit)),
          LAMBDA w : /\ Commit(w)
                     /\ returned' = returned \cup {w.ret}
                     /\ lastCall' = [op |-> "html", lit |-> lit,
                                     values |-> SomeValues(lit), ret |-> w.ret])
  /\ UNCHANGED <<tops, list, collided, outside>>

NextCompile == \E lit \in Literals : CompileCall(lit)

SpecCompile == Init /\ [][NextCompile]_vars

(***************************************************************************)
(* Timers and debounceFn.  A timer is [due, state, this, args, call]: the  *)
(* time it is due, "pending" / "cleared" / "fired", and the receiver, the  *)
(* arguments and the number of the debounced call its callback closes over.*)
(* setTimeout returns the index of the timer in the table.                 *)
(***************************************************************************)
SetTimeout(ts, t, delay, this, args, call) ==
  Append(ts, [due |-> t + delay, state |-> "pending", this |-> this, args |-> args,
              call |-> call])

\* clearTimeout(id): no effect on a timer that has fired or was cleared
ClearTimeout(ts, id) ==
  IF id \in 1..Len(ts) /\ ts[id].state = "pending"
  THEN [ts EXCEPT ![id].state = "cleared"]
  ELSE ts

\* The timers that are pending
Pending(ts) == {id \in 1..Len(ts) : ts[id].state = "pending"}

\* A debounced function that sets a new timer without clearing the old one
DebouncedNoClear(tm, ts, t, delay, this, args, call) ==
  [timers |-> SetTimeout(ts, t, delay, this, args, call), timer |-> Len(ts) + 1]

\* The function debounceFn returns, called at time t: tm is its `timer`
\* variable (0: null); the result holds the new `timer` and timer table
Debounced(tm, ts, t, delay, this, args, call) ==
  LET ts1 == IF tm # 0 THEN ClearTimeout(ts, tm) ELSE ts
  IN [timers |-> SetTimeout(ts1, t, delay, this, args, call), timer |-> Len(ts1) + 1]

\* The variables of the template engine and of the elements
engine == <<dom, parts, insts, cachedElements, metadataMap, log, threw,
            returned, tops, list, collided, elems, prop>>

(***************************************************************************)
(* A fifth state machine: one debounced function d = debounceFn(execute,   *)
(* Delay), called with two receivers and two arguments while the clock     *)
(* runs.  A timer that is due fires before the clock moves on.             *)
(***************************************************************************)
Receivers == {"o1", "o2"}
Arguments == {<<1>>, <<2>>}

\* applyDebounce: descriptor.value = debounceFn(original, options.delay), one
\* function with one `timer` on the prototype, the method of every instance
ApplyDebounce(tm, ts, t, this, args, call) ==
  Debounced(tm, ts, t, Delay, this, args, call)

\* d.call(this, ...args), and instance.method(...args) for a decorated method
DebouncedCall(this, args) ==
  /\ calls < MaxDebounceCalls
  /\ now + Delay <= MaxTime
  /\ calls' = calls + 1
  /\ callLog' = Append(callLog, [t |-> now, this |-> this, args |-> args])
  /\ LET d == ApplyDebounce(timer, timers, now, this, args, Len(callLog) + 1)
     IN timers' = d.timers /\ timer' = d.timer
  /\ lastCall' = [op |-> "debounced", this |-> this, args |-> args]
  /\ UNCHANGED <<engine, now, executed>>

\* The callback of timer id runs: execute.apply(this, args); timer = null
Fire(id) ==
  /\ timers[id].state = "pending"
  /\ timers[id].due <= now
  /\ timers' = [timers EXCEPT ![id].state = "fired"]
  /\ executed' = Append(executed, [t |-> now, this |-> timers[id].this,
                                   args |-> timers[id].args, call |-> timers[id].call])
  /\ timer' = 0
  /\ lastCall' = [op |-> "fire", id |-> id]
  /\ UNCHANGED <<engine, now, callLog, calls>>

\* The clock moves on when no timer is due
Tick ==
  /\ now < MaxTime
  /\ \A id \in Pending(timers) : timers[id].due > now
  /\ now' = now + 1
  /\ UNCHANGED <<engine, timers, timer, callLog, executed, lastCall, calls>>

NextDebounce ==
  \/ \E this \in Receivers : \E args \in Arguments : DebouncedCall(this, args)
  \/ \E id \in 1..Len(timers) : Fire(id)
  \/ Tick

SpecDebounce == Init /\ [][NextDebounce]_vars

\* Time passes, and the event loop runs a timer that is due
SpecDebounceFair ==
  /\ SpecDebounce
  /\ WF_vars(Tick)
  /\ WF_vars(\E id \in 1..Len(timers) : Fire(id))

(***************************************************************************)
(* The @property decorator.  The state of one decorated property of one    *)
(* element is a cell [own, value, attr, guard, before, after, requested,   *)
(* threw]: whether the private key is an own property, the stored value,   *)
(* the reflected attribute (Null: absent), the decorator's internalUpdate  *)
(* flag, how often the before / after hooks ran and requestUpdate was      *)
(* called, whether the last operation threw, and its trace: "set" for each *)
(* entry into the set accessor and "write" for each setAttribute or        *)
(* removeAttribute the accessor calls.  The values are strings, numbers,   *)
(* booleans, null, undefined, arrays and objects with one property, key.   *)
(***************************************************************************)
Setting(type, attribute, readonly, rerender) ==
  [type |-> type, attribute |-> attribute, readonly |-> readonly, rerender |-> rerender,
   removeAttribute |-> TRUE]

NewCell ==
  [own |-> FALSE, value |-> Undefined, attr |-> Null, guard |-> FALSE,
   before |-> 0, after |-> 0, requested |-> 0, threw |-> FALSE, trace |-> <<>>]

\* typeof v
TypeOf(v) == IF v.t \in {"null", "array", "object"} THEN "object" ELSE v.t

RECURSIVE SameValue(_, _)
\* sameValue(a, b), when it returns: arrays item by item, objects key by key
\* (an object of the model has the one key `key`, an array has index keys)
SameValue(a, b) ==
  IF TypeOf(a) # TypeOf(b) THEN FALSE
  ELSE IF a.t = "array"
  THEN /\ b.t = "array"
       /\ Len(a.items) = Len(b.items)
       /\ \A i \in 1..Len(a.items) : SameValue(a.items[i], b.items[i])
  ELSE IF a.t = "object" THEN b.t = "object" /\ SameValue(a.key, b.key)
  ELSE a = b

RECURSIVE SameValueThrows(_, _)
\* sameValue(a, b) throws: Object.keys(a) or Object.keys(b) is reached with
\* null, at the top or in the first pair of items that are not the same
SameValueThrows(a, b) ==
  IF TypeOf(a) # TypeOf(b) THEN FALSE
  ELSE IF a.t = "array"
  THEN /\ b.t = "array"
       /\ Len(a.items) = Len(b.items)
       /\ \E i \in 1..Len(a.items) :
            /\ \A j \in 1..(i - 1) : /\ ~SameValueThrows(a.items[j], b.items[j])
                                     /\ SameValue(a.items[j], b.items[j])
            /\ SameValueThrows(a.items[i], b.items[i])
  ELSE IF TypeOf(a) = "object"
  THEN \/ a.t = "null"
       \/ b.t = "null"
       \/ (b.t = "object" /\ SameValueThrows(a.key, b.key))
  ELSE FALSE

\* The numerals the model parses
Numerals == {-1, 0, 1, 2}

\* Number(s) for the decimal numerals of the model
ToNumber(s) == Num(CHOOSE n \in Numerals : ToString(n) = s)

\* /(false|f|0|)/i.test(s): the last alternative is empty, and the empty
\* string is found in every string
MatchesFalse(s) == TRUE

\* parseAttributeValue(value, type)
ParseAttributeValue(value, type) ==
  IF IsNullish(value) THEN value
  ELSE CASE type = "String" -> Str(value.s)
         [] type = "Number" -> ToNumber(value.s)
         [] type = "Boolean" -> IF MatchesFalse(value.s) THEN Bool(FALSE)
                                ELSE Bool(value.s # "")

\* stringifyPropertyValue(value, type) for String, Number and Boolean
StringifyPropertyValue(value, type) == ToStr(value)

\* !isInitial && settings.rerender && typeof this.requestUpdate === 'function'
ShouldRequest(isInitial, st) == ~isInitial /\ st.rerender

RECURSIVE Setter(_, _, _), AttributeChanged(_, _, _, _)
\* The set accessor the decorator defines
Setter(c, st, value) ==
  IF st.readonly /\ c.own THEN [c EXCEPT !.threw = TRUE, !.trace = Append(@, "set")]
  ELSE IF ~c.guard /\ SameValueThrows(value, c.value)
  THEN [c EXCEPT !.threw = TRUE, !.trace = Append(@, "set")]
  ELSE IF ~c.guard /\ SameValue(value, c.value) THEN [c EXCEPT !.trace = Append(@, "set")]
  ELSE LET isInitial == ~c.own
           stored == [c EXCEPT !.before = @ + 1, !.value = value, !.own = TRUE,
                               !.trace = Append(@, "set")]
           remove == value \in {Null, Undefined, Bool(FALSE)} /\ st.removeAttribute
           new == IF remove THEN Null ELSE Str(StringifyPropertyValue(value, st.type))
           written == [stored EXCEPT !.guard = TRUE, !.attr = new,
                                     !.trace = Append(@, "write")]
           reflected ==
             IF st.attribute /\ ~c.guard
             THEN IF remove /\ c.attr = Null THEN written
                  ELSE AttributeChanged(written, st, new, c.attr)
             ELSE stored
       IN [reflected EXCEPT !.guard = FALSE, !.after = @ + 1,
                            !.requested = IF ShouldRequest(isInitial, st) THEN @ + 1 ELSE @]

\* The handler attributeChangedCallback forwards to
AttributeChanged(c, st, newValue, oldValue) ==
  IF c.guard THEN [c EXCEPT !.guard = FALSE]
  ELSE LET nvalue == ParseAttributeValue(newValue, st.type)
           ovalue == ParseAttributeValue(oldValue, st.type)
       IN IF SameValueThrows(nvalue, ovalue) THEN [c EXCEPT !.threw = TRUE]
          ELSE IF SameValue(nvalue, ovalue) THEN c
          ELSE Setter([c EXCEPT !.guard = TRUE], st, nvalue)

(***************************************************************************)
(* A sixth state machine: one element with four reflected properties, a    *)
(* String, a Number, a Boolean and a readonly String one, assigned and     *)
(* changed through their attributes, and a fifth property without an       *)
(* attribute that holds null, numbers, arrays and objects.                 *)
(***************************************************************************)
PropertyKeys == {"s", "n", "b", "r", "o"}

SettingOf(key) ==
  CASE key = "s" -> Setting("String", TRUE, FALSE, TRUE)
    [] key = "n" -> Setting("Number", TRUE, FALSE, TRUE)
    [] key = "b" -> Setting("Boolean", TRUE, FALSE, TRUE)
    [] key = "r" -> Setting("String", TRUE, TRUE, TRUE)
    [] key = "o" -> Setting("Object", FALSE, FALSE, TRUE)

\* The values the model assigns, and the texts it writes to the attributes
PropertyValues(key) ==
  CASE key = "s" -> {Str(""), Str("a")}
    [] key = "n" -> {Num(0), Num(1), Num(-1)}
    [] key = "b" -> {Bool(TRUE), Bool(FALSE)}
    [] key = "r" -> {Str("a"), Str("b")}
    [] key = "o" -> {Null, Num(1), Arr(1, <<Num(1)>>), Arr(2, <<Num(1)>>),
                     Obj(1, Str("a"))}

AttributeTexts(key) ==
  CASE key = "s" -> {"a", "b"}
    [] key = "n" -> {"0", "2"}
    [] key = "b" -> {"true", "false", ""}
    [] key = "r" -> {"a", "c"}
    [] key = "o" -> {}

InitProperty ==
  /\ FreshHeap
  /\ list = 0
  /\ NoTimers
  /\ elems = <<>>
  /\ prop = [key \in PropertyKeys |-> NewCell]

\* element[key] = value
Assign(key, value) ==
  /\ calls < MaxPropCalls
  /\ calls' = calls + 1
  /\ prop' = [prop EXCEPT ![key] = Setter([@ EXCEPT !.threw = FALSE, !.trace = <<>>], SettingOf(key), value)]
  /\ lastCall' = [op |-> "assign", key |-> key, value |-> value]
  /\ UNCHANGED <<dom, parts, insts, cachedElements, metadataMap, log, threw, returned,
                 tops, list, collided, elems, now, timers, timer, callLog, executed>>

\* element.setAttribute(key, text), by code outside the decorator
WriteAttribute(key, text) ==
  /\ calls < MaxPropCalls
  /\ calls' = calls + 1
  /\ prop' = [prop EXCEPT ![key] =
                AttributeChanged([@ EXCEPT !.threw = FALSE, !.trace = <<>>, !.attr = Str(text)],
                                 SettingOf(key), Str(text), @.attr)]
  /\ lastCall' = [op |-> "setAttribute", key |-> key, text |-> text]
  /\ UNCHANGED <<dom, parts, insts, cachedElements, metadataMap, log, threw, returned,
                 tops, list, collided, elems, now, timers, timer, callLog, executed>>

\* element.removeAttribute(key), by code outside the decorator: the callback
\* runs when the attribute was there
DropAttribute(key) ==
  /\ calls < MaxPropCalls
  /\ calls' = calls + 1
  /\ prop[key].attr # Null
  /\ prop' = [prop EXCEPT ![key] =
                AttributeChanged([@ EXCEPT !.threw = FALSE, !.trace = <<>>, !.attr = Null],
                                 SettingOf(key), Null, @.attr)]
  /\ lastCall' = [op |-> "removeAttribute", key |-> key]
  /\ UNCHANGED <<dom, parts, insts, cachedElements, metadataMap, log, threw, returned,
                 tops, list, collided, elems, now, timers, timer, callLog, executed>>

NextProperty ==
  \/ \E key \in PropertyKeys : \E value \in PropertyValues(key) : Assign(key, value)
  \/ \E key \in PropertyKeys : \E text \in AttributeTexts(key) : WriteAttribute(key, text)
  \/ \E key \in PropertyKeys : DropAttribute(key)

SpecProperty == InitProperty /\ [][NextProperty]_vars

(***************************************************************************)
(* CustomElement.  The component of the model has two rerender properties, *)
(* show and count, one @query("p") property para, and                      *)
(*   render() { return html`<div>${this.show                               *)
(*                                  ? html`<p>${this.count}</p>` : null}</div>` } *)
(* An element is a record: its shadow root, its TemplateInstance (0: null),*)
(* the cells of its properties, the queried element (0: null or            *)
(* undefined), the timer of its debounced requestUpdate, and what has      *)
(* happened to it: how often update() ran, firstRender() ran, the          *)
(* first-render event was dispatched, a TemplateInstance was created and   *)
(* the rendered root appended, and whether a rerender property changed     *)
(* since the last update().                                                *)
(***************************************************************************)
Rerender(type) == Setting(type, FALSE, FALSE, TRUE)

SettingOfElement(key) ==
  CASE key = "show" -> Rerender("Boolean")
    [] key = "count" -> Rerender("Number")

\* A property after its field initialiser ran
Initialised(value) == [NewCell EXCEPT !.own = TRUE, !.value = value]

\* new Component(): attachShadow gave it the shadow root
NewElement(shadow) ==
  [shadowRoot |-> shadow, templateInstance |-> 0,
   props |-> [show |-> Initialised(Bool(FALSE)), count |-> Initialised(Num(0))],
   para |-> 0, timer |-> 0, connected |-> FALSE,
   updates |-> 0, firstRenders |-> 0, dispatched |-> 0, created |-> 0, appended |-> 0,
   dirty |-> FALSE]

ElementWorld ==
  [dom |-> dom, parts |-> parts, insts |-> insts,
   cachedElements |-> cachedElements, metadataMap |-> metadataMap,
   log |-> <<>>, threw |-> FALSE, ret |-> 0, elems |-> elems]

\* parent.append(node)
AppendChild(w, parent, node) ==
  IF Contains(w.dom, node, parent) THEN Throw(w)
  ELSE LET old == w.dom[node].parent
           w1 == IF old # 0 THEN RemoveChild(w, old, node) ELSE w
       IN Emit([w1 EXCEPT !.dom[parent].children = Append(@, node),
                          !.dom[node].parent = parent],
               [ev |-> "append", node |-> node, parent |-> parent])

\* root.querySelector(tag): the first element under root with that tag, 0 for null
QuerySelector(d, root, tag) ==
  LET under == SelectSeq(Walk(d, root),
                         LAMBDA n : n # root /\ d[n].type = "element" /\ d[n].tag = tag)
  IN IF Len(under) = 0 THEN 0 ELSE under[1]

\* get root
RootOf(w, e) ==
  IF w.elems[e].templateInstance # 0 THEN w.insts[w.elems[e].templateInstance].root
  ELSE w.elems[e].shadowRoot

\* The values render() reads
Rendered(el) == [show |-> el.props.show.value, count |-> el.props.count.value]

\* this.render(): w.ret is the root html() returned
Render(w, e) ==
  IF Truthy(w.elems[e].props.show.value)
  THEN With(Html(w, "B", <<w.elems[e].props.count.value>>),
            LAMBDA b : Html(b, "T", <<NodeRef(b.ret)>>))
  ELSE Html(w, "T", <<Null>>)

\* An update() that takes every render for the first one
NeedsFirstRenderAlways(el) == TRUE

\* this.templateInstance == null
NeedsFirstRender(el) == el.templateInstance = 0

\* Only the event, no firstRender()
AnnounceEventOnly(w, e) ==
  Emit([w EXCEPT !.elems[e].dispatched = @ + 1], [ev |-> "first-render", el |-> e])

\* this.firstRender(); this.dispatchEvent(new Event("first-render"))
Announce(w, e) ==
  Emit(Emit([w EXCEPT !.elems[e].firstRenders = @ + 1, !.elems[e].dispatched = @ + 1],
            [ev |-> "firstRender", el |-> e]),
       [ev |-> "first-render", el |-> e])

\* The block of update() that runs while there is no TemplateInstance
FirstRender(w, e, newRoot) ==
  IF ~NeedsFirstRender(w.elems[e]) THEN w
  ELSE With(AppendChild(w, RootOf(w, e), newRoot),
            LAMBDA a :
              IF a.threw THEN a
              ELSE With(NewTemplateInstance([a EXCEPT !.elems[e].appended = @ + 1], newRoot),
                        LAMBDA n :
                          IF n.threw THEN n
                          ELSE Announce([n EXCEPT !.elems[e].templateInstance = n.ret,
                                                  !.elems[e].created = @ + 1], e)))

\* findQueries()
FindQueries(w, e) ==
  IF w.elems[e].para # 0 THEN w
  ELSE [w EXCEPT !.elems[e].para = QuerySelector(w.dom, RootOf(w, e), "p")]

\* update()
ElementUpdate(w, e) ==
  With(Render(Emit([w EXCEPT !.elems[e].updates = @ + 1, !.elems[e].dirty = FALSE],
                   [ev |-> "elementUpdate", el |-> e, rendered |-> Rendered(w.elems[e])]), e),
       LAMBDA r :
         With(FirstRender(r, e, r.ret),
              LAMBDA f :
                IF f.threw \/ ~HasValues(r, r.ret) THEN f
                ELSE With(InstUpdate(f, f.elems[e].templateInstance, GetValues(r, r.ret)),
                          LAMBDA u : IF u.threw THEN u ELSE FindQueries(u, e))))

(***************************************************************************)
(* A seventh state machine: two elements of the component, connected,      *)
(* disconnected, updated and changed at any ticks of the clock.            *)
(***************************************************************************)
Elements == {1, 2}

InitElement ==
  /\ NoTimers
  /\ prop = <<>>
  /\ dom = [e \in Elements |-> MkNode("fragment", "#shadow-root", "", <<>>)]
  /\ elems = [e \in Elements |-> NewElement(e)]
  /\ parts = <<>>
  /\ insts = <<>>
  /\ cachedElements = [l \in Literals |-> 0]
  /\ metadataMap = <<>>
  /\ log = <<>>
  /\ threw = FALSE
  /\ returned = {}
  /\ tops = {}
  /\ lastCall = [op |-> "init"]
  /\ calls = 0
  /\ collided = FALSE
  /\ list = 0

CommitElement(w) ==
  /\ Commit(w)
  /\ elems' = w.elems

\* connectedCallback()
Connect(e) ==
  /\ calls < MaxElemCalls
  /\ calls' = calls + 1
  /\ ~elems[e].connected
  /\ CommitElement(ElementUpdate([ElementWorld EXCEPT !.elems[e].connected = TRUE], e))
  /\ lastCall' = [op |-> "connected", el |-> e]
  /\ UNCHANGED <<returned, tops, list, collided, prop, now, timers, timer, callLog, executed>>

\* disconnectedCallback()
Disconnect(e) ==
  /\ calls < MaxElemCalls
  /\ calls' = calls + 1
  /\ elems[e].connected
  /\ elems' = [elems EXCEPT ![e].connected = FALSE]
  /\ log' = <<>>
  /\ lastCall' = [op |-> "disconnected", el |-> e]
  /\ UNCHANGED <<dom, parts, insts, cachedElements, metadataMap, threw, returned, tops,
                 list, collided, prop, now, timers, timer, callLog, executed>>

\* element.update()
CallUpdate(e) ==
  /\ calls < MaxElemCalls
  /\ calls' = calls + 1
  /\ CommitElement(ElementUpdate(ElementWorld, e))
  /\ lastCall' = [op |-> "update", el |-> e]
  /\ UNCHANGED <<returned, tops, list, collided, prop, now, timers, timer, callLog, executed>>

\* One debounced update for the whole class: a request of any element
\* cancels the pending update of every element
RequestUpdateShared(els, ts, cl, t, e) ==
  LET cleared == [id \in 1..Len(ts) |-> ClearTimeout(ts, id)[id]]
  IN [elems |-> [x \in DOMAIN els |-> [els[x] EXCEPT !.timer = IF x = e THEN Len(ts) + 1 ELSE 0]],
      timers |-> SetTimeout(cleared, t, Delay, e, <<>>, Len(cl) + 1),
      callLog |-> Append(cl, [t |-> t, this |-> e, args |-> <<>>])]

\* this.requestUpdate(): the debounced update of element e
RequestUpdate(els, ts, cl, t, e) ==
  LET d == Debounced(els[e].timer, ts, t, Delay, e, <<>>, Len(cl) + 1)
  IN [elems |-> [els EXCEPT ![e].timer = d.timer], timers |-> d.timers,
      callLog |-> Append(cl, [t |-> t, this |-> e, args |-> <<>>])]

\* element.requestUpdate()
CallRequestUpdate(e) ==
  /\ calls < MaxElemCalls
  /\ now + Delay <= MaxTime
  /\ calls' = calls + 1
  /\ LET r == RequestUpdate(elems, timers, callLog, now, e)
     IN elems' = r.elems /\ timers' = r.timers /\ callLog' = r.callLog
  /\ log' = <<>>
  /\ lastCall' = [op |-> "requestUpdate", el |-> e]
  /\ UNCHANGED <<dom, parts, insts, cachedElements, metadataMap, threw, returned, tops,
                 list, collided, prop, now, timer, executed>>

\* element[key] = value
SetProperty(e, key, value) ==
  /\ calls < MaxElemCalls
  /\ now + Delay <= MaxTime
  /\ calls' = calls + 1
  /\ LET old == elems[e].props[key]
         new == Setter([old EXCEPT !.trace = <<>>], SettingOfElement(key), value)
         changed == [elems EXCEPT ![e].props[key] = new,
                                  ![e].dirty = @ \/ new.value # old.value]
         r == IF new.requested > old.requested
              THEN RequestUpdate(changed, timers, callLog, now, e)
              ELSE [elems |-> changed, timers |-> timers, callLog |-> callLog]
     IN elems' = r.elems /\ timers' = r.timers /\ callLog' = r.callLog
  /\ log' = <<>>
  /\ lastCall' = [op |-> "set", el |-> e, key |-> key, value |-> value]
  /\ UNCHANGED <<dom, parts, insts, cachedElements, metadataMap, threw, returned, tops,
                 list, collided, prop, now, timer, executed>>

\* The callback of the element's timer runs: update.apply(this); timer = null
TimerFires(id) ==
  /\ timers[id].state = "pending"
  /\ timers[id].due <= now
  /\ timers' = [timers EXCEPT ![id].state = "fired"]
  /\ executed' = Append(executed, [t |-> now, this |-> timers[id].this,
                                   args |-> timers[id].args, call |-> timers[id].call])
  /\ With(ElementUpdate(ElementWorld, timers[id].this),
          LAMBDA u : CommitElement(IF u.threw THEN u
                                   ELSE [u EXCEPT !.elems[timers[id].this].timer = 0]))
  /\ lastCall' = [op |-> "timer", el |-> timers[id].this, id |-> id]
  /\ UNCHANGED <<returned, tops, list, collided, prop, now, timer, callLog, calls>>

\* The clock moves on when no timer is due; without a pending timer the
\* elements cannot tell the time
Wait ==
  /\ now < MaxTime
  /\ Pending(timers) # {}
  /\ \A id \in Pending(timers) : timers[id].due > now
  /\ now' = now + 1
  /\ UNCHANGED <<dom, parts, insts, cachedElements, metadataMap, log, threw, returned,
                 tops, list, collided, elems, prop, timers, timer, callLog, executed,
                 lastCall, calls>>

NextElement ==
  \/ \E e \in Elements : Connect(e)
  \/ \E e \in Elements : Disconnect(e)
  \/ \E e \in Elements : CallUpdate(e)
  \/ \E e \in Elements : CallRequestUpdate(e)
  \/ \E e \in Elements : \E b \in BOOLEAN : SetProperty(e, "show", Bool(b))
  \/ \E e \in Elements : SetProperty(e, "count", Num(1))
  \/ \E id \in 1..Len(timers) : TimerFires(id)
  \/ Wait

SpecElement == InitElement /\ [][NextElement]_vars

\* The elements are connected and their properties changed, time passes,
\* and the event loop runs a timer that is due
NextRerender ==
  \/ \E e \in Elements : Connect(e)
  \/ \E e \in Elements : \E b \in BOOLEAN : SetProperty(e, "show", Bool(b))
  \/ \E e \in Elements : SetProperty(e, "count", Num(1))
  \/ \E id \in 1..Len(timers) : TimerFires(id)
  \/ Wait

\* A timer is due: TimerFires is enabled
TimerDue == \E id \in Pending(timers) : timers[id].due <= now

\* Time passes while timers are pending, and the event loop runs a timer
\* that is due.  A due timer stops being due only by running or by being
\* cleared, and only finitely many timers are set, so that weak fairness of
\* TimerFires is: again and again no timer is due.
SpecRerender ==
  /\ InitElement
  /\ [][NextRerender]_vars
  /\ WF_vars(Wait)
  /\ []<>~TimerDue

(***************************************************************************)
(* The claims.                                                             *)
(***************************************************************************)
\* A step that is the call op (every call increments calls)
IsCall(op) == calls' # calls /\ lastCall'.op = op

\* C1: every call of html() returns a fresh clone: the returned node is never
\* the node stored in the compile cache, and never a node that an earlier
\* call returned.
C1_HtmlReturnsFreshClone ==
  [][IsCall("html") =>
       /\ ~IsCompiledRoot(cachedElements', lastCall'.ret)
       /\ lastCall'.ret \notin returned]_vars

\* C2: every TemplateInstance built on a node html() returned for a literal
\* with N slots has exactly N Parts, whatever happened to earlier instances
\* of that literal.
C2_InstanceHasArityParts ==
  \A i \in 1..Len(insts) :
    IsCompiledRoot(cachedElements, insts[i].root) =>
      Len(insts[i].parts) = Arity(LiteralOf(cachedElements, insts[i].root))

\* The nested TemplateInstance a ValuePart holds (0: none)
NestedInstanceOf(ps, p) ==
  IF ps[p].kind = "value" /\ ps[p].nestedInstance # 0
  THEN ps[ps[p].nestedInstance].instance
  ELSE 0

\* The value update() hands to the k-th Part
ValueAt(values, k) == IF k <= Len(values) THEN values[k] ELSE Undefined

\* The events of a log that satisfy Test
Events(lg, Test(_)) == {i \in 1..Len(lg) : Test(lg[i])}

\* Two updates in a row of the same top-level instance, the first of which
\* returned normally
IsConsecutiveUpdate ==
  /\ IsCall("update")
  /\ lastCall.op = "update"
  /\ lastCall.inst = lastCall'.inst
  /\ ~threw

\* C3: when a ValuePart that already holds the nested instance of a template
\* root receives that root again on a further consecutive update, the update
\* forwards the values stored for the root to that one instance, creates no
\* other instance, and neither detaches nor re-inserts the root.
C3_NestedAlwaysForwarded ==
  [][IsConsecutiveUpdate =>
       \A k \in 1..Len(insts[lastCall'.inst].parts) :
         LET p == insts[lastCall'.inst].parts[k]
             v == ValueAt(lastCall'.values, k)
             ni == NestedInstanceOf(parts, p)
         IN (ni # 0 /\ IsTemplateRoot(World, v) /\ insts[ni].root = v.id) =>
              /\ \E i \in 1..Len(log') :
                   /\ log'[i].ev = "update"
                   /\ log'[i].inst = ni
                   /\ log'[i].values = metadataMap'[v.id]
              /\ Len(insts') = Len(insts)
              /\ \A i \in 1..Len(log') :
                   log'[i].ev \in {"removeChild", "insertBefore"} =>
                     log'[i].node # v.id]_vars

\* C4: when a ValuePart that holds the nested instance of literal A's root
\* receives the root of a different literal B, A's instance is removed (its
\* root detached), a new instance is created on B's root, B's root stands
\* immediately before the anchor, and B's values are never passed to update()
\* of A's instance.
C4_OtherLiteralReplacesInstance ==
  [][(IsCall("update") /\ ~threw) =>
       \A k \in 1..Len(insts[lastCall'.inst].parts) :
         LET p == insts[lastCall'.inst].parts[k]
             v == ValueAt(lastCall'.values, k)
             ni == NestedInstanceOf(parts, p)
             marker == parts[p].marker
         IN (ni # 0 /\ IsTemplateRoot(World, v) /\ insts[ni].root # v.id) =>
              /\ \A i \in 1..Len(log') :
                   log'[i].ev = "update" /\ log'[i].inst = ni =>
                     log'[i].values # metadataMap'[v.id]
              /\ dom'[insts[ni].root].parent = 0
              /\ NestedInstanceOf(parts', p) \notin {0, ni}
              /\ insts'[NestedInstanceOf(parts', p)].root = v.id
              /\ dom'[v.id].parent = dom'[marker].parent
              /\ dom'[marker].parent # 0
              /\ LET ch == dom'[dom'[marker].parent].children
                 IN IndexOf(ch, v.id) + 1 = IndexOf(ch, marker)]_vars

\* C5: update(vs) followed by update(vs) with the identical array performs
\* no DOM mutation during the second call.
C5_SecondUpdateMutatesNothing ==
  [][(IsConsecutiveUpdate /\ lastCall'.values = lastCall.values) =>
       \A i \in 1..Len(log') : ~IsMutation(log'[i])]_vars

\* Two ListPart.apply calls in a row, each with an array whose keys are
\* pairwise distinct
IsKeyedPair ==
  /\ IsCall("listApply")
  /\ lastCall.op = "listApply"
  /\ ~threw /\ ~threw'
  /\ ~HasDuplicate(lastCall.keys)
  /\ ~HasDuplicate(lastCall'.keys)

\* The item anchors the current call created
NewAnchors ==
  {n \in (Len(dom) + 1)..Len(dom') :
     dom'[n].type = "comment" /\ dom'[n].data = "item-marker"}

\* C6: over two consecutive ListPart.apply calls with pairwise-distinct keys,
\* a key present in both arrays keeps its Part and its anchor (anchors and
\* Parts are created for the new keys only), and apply(newItem, oldItem) runs
\* on that Part exactly when newItem is not identical to the item last
\* applied under the key.
C6_KeyedReuse ==
  [][IsKeyedPair =>
       /\ Cardinality(NewAnchors) =
            Cardinality({i \in 1..Len(lastCall'.keys) :
                           lastCall'.keys[i] \notin Range(lastCall.keys)})
       /\ \A i \in 1..Len(lastCall'.keys) :
            LET key == lastCall'.keys[i]
                item == lastCall'.items[i]
            IN key \in Range(lastCall.keys) =>
                 LET oldItem == lastCall.items[IndexOf(lastCall.keys, key)]
                     old == MapGet(parts[list].keyMap, key)
                     applies == Events(log', LAMBDA e : e.ev = "apply" /\ e.part = old.part)
                 IN /\ MapHas(parts[list].keyMap, key)
                    /\ MapHas(parts'[list].keyMap, key)
                    /\ MapGet(parts'[list].keyMap, key).part = old.part
                    /\ parts'[old.part].marker = parts[old.part].marker
                    /\ dom'[parts[old.part].marker].parent = dom[parts[old.part].marker].parent
                    /\ dom[parts[old.part].marker].parent # 0
                    /\ Cardinality(applies) = IF item # oldItem THEN 1 ELSE 0
                    /\ \A a \in applies :
                         log'[a].value = item /\ log'[a].old = oldItem]_vars

\* C6 happens: both keys of a two-item array were reused (no anchor created),
\* in swapped order, one with an apply and one without
C6_Witness ==
  /\ lastCall.op = "listApply"
  /\ ~threw /\ ~collided
  /\ lastCall.items = <<ItemB, ItemA2>>
  /\ Len(parts[list].keyMap) = 2
  /\ parts[list].keyMap[1].part > parts[list].keyMap[2].part
  /\ Cardinality(Events(log, LAMBDA e : e.ev = "apply" /\ e.old = ItemA)) = 1
  /\ Events(log, LAMBDA e : e.ev = "apply" /\ e.value = ItemB) = {}

\* The item anchors that stand before the list anchor
ItemAnchors(d, marker) ==
  LET ch == d[d[marker].parent].children
  IN {i \in 1..(IndexOf(ch, marker) - 1) :
        d[ch[i]].type = "comment" /\ d[ch[i]].data = "item-marker"}

\* C7: after any sequence of ListPart.apply calls with pairwise-distinct
\* keys, the keyed map holds one entry per item of the last array, as many
\* item anchors stand before the list anchor as the array has items, and each
\* Part whose key left the array had remove() called once, its anchor and
\* its content detached.
C7_ListShrink ==
  [][(IsCall("listApply") /\ ~collided') =>
       LET km == parts'[list].keyMap
           items == lastCall'.items
       IN /\ ~threw'
          /\ Len(km) = Len(items)
          /\ \A i \in 1..Len(items) :
               km[i].key = lastCall'.keys[i] /\ km[i].value = items[i]
          /\ Cardinality(ItemAnchors(dom', parts[list].marker)) = Len(items)
          /\ \A j \in 1..Len(parts[list].keyMap) :
               LET e == parts[list].keyMap[j]
                   ni == NestedInstanceOf(parts, e.part)
               IN e.key \notin Range(lastCall'.keys) =>
                    /\ Cardinality(Events(log', LAMBDA x : x.ev = "remove" /\ x.part = e.part)) = 1
                    /\ dom'[parts[e.part].marker].parent = 0
                    /\ parts'[e.part].node = 0
                    /\ parts'[e.part].nestedInstance = 0
                    /\ parts[e.part].node # 0 => dom'[parts[e.part].node].parent = 0
                    /\ ni # 0 => dom'[insts[ni].root].parent = 0]_vars

\* C7 happens: a three-item list has shrunk to one item, two Parts removed
C7_Witness ==
  /\ lastCall.op = "listApply"
  /\ ~threw /\ ~collided
  /\ Len(lastCall.items) = 1
  /\ Cardinality(Events(log, LAMBDA e : e.ev = "remove")) = 2

\* The key the item at index i is to get: item.key unless null or undefined,
\* else the text of a template root's key attribute, else the index
DocumentedKey(item, index) ==
  IF ~IsNullish(KeyProperty(item)) THEN KeyProperty(item)
  ELSE IF /\ IsTemplateRoot(World, item)
          /\ HasAttribute(dom[item.id], "key")
          /\ GetAttribute(dom[item.id], "key") # Str(MarkerValue)
       THEN GetAttribute(dom[item.id], "key")
       ELSE Num(index)

\* C8: ListPart keys the item at index i by item.key whenever item.key is
\* neither null nor undefined (0 and "" included), otherwise by the key
\* attribute of a template-root item, otherwise by i.
C8_KeyDerivation ==
  [][IsCall("listApply") =>
       \A i \in 1..Len(lastCall'.keys) :
         lastCall'.keys[i] = DocumentedKey(lastCall'.items[i], i - 1)]_vars

\* C9: a template-root item whose key attribute is a slot bound to k is
\* keyed by k on every render, the first one included.
C9_KeyFromManualKey ==
  [][IsCall("listApply") =>
       \A i \in 1..Len(lastCall'.keys) :
         LET item == lastCall'.items[i]
         IN (IsTemplateRoot(World, item) /\ HasValues(World, item.id)
             /\ LiteralOf(cachedElements, item.id) = "I") =>
              lastCall'.keys[i] = GetValues(World, item.id)[1]]_vars

\* The apply events of the Parts in ps, in the order they happened
Applied(lg, ps) == SelectSeq(lg, LAMBDA e : e.ev = "apply" /\ e.part \in Range(ps))

IsAttrOrEvent(p) == parts[p].kind \in {"attr", "event"}

\* Part p comes before Part q in the order update() is to follow: attr/event
\* Parts first, document order inside each group
Before(ps, p, q) ==
  \/ IsAttrOrEvent(p) /\ ~IsAttrOrEvent(q)
  \/ IsAttrOrEvent(p) = IsAttrOrEvent(q) /\ IndexOf(ps, p) < IndexOf(ps, q)

\* C10: update(values) applies each Part once with values[i] of its own
\* document-order index i, every attr/event Part before any value/list Part
\* and in document order inside each group; a call that an exception ends
\* has applied a prefix of that order.
C10_UpdateOrder ==
  [][IsCall("update") =>
       LET ps == insts[lastCall'.inst].parts
           a == Applied(log', ps)
       IN /\ \A k \in 1..Len(a) :
               a[k].value = ValueAt(lastCall'.values, IndexOf(ps, a[k].part))
          /\ \A j, k \in 1..Len(a) : j < k => Before(ps, a[j].part, a[k].part)
          /\ \A q \in Range(ps) :
               (\A k \in 1..Len(a) : a[k].part # q) =>
                 /\ threw'
                 /\ \A k \in 1..Len(a) : Before(ps, a[k].part, q)]_vars

\* C10 happens: an update has applied the attribute and the event Part of
\* <h1>${c}<b title=${t} onclick=${h}>, which follow the value slot in the
\* document
C10_Witness ==
  /\ lastCall.op = "update"
  /\ ~threw
  /\ insts[lastCall.inst].indexList = <<2, 3, 1>>
  /\ Len(Applied(log, insts[lastCall.inst].parts)) = 3

(***************************************************************************)
(* Claims on single Parts (checked under SpecPart).                        *)
(***************************************************************************)
\* The value the step's call applies to Part p: the argument of a direct
\* apply, the array element at the Part's index for an update
AppliesTo(p) ==
  \/ IsCall("apply") /\ lastCall'.part = p
  \/ IsCall("update") /\ p \in HostParts

AppliedValue(p) ==
  IF lastCall'.op = "apply" THEN lastCall'.value
  ELSE ValueAt(lastCall'.values, IndexOf(insts[1].parts, p))

\* C11: after every apply on an attribute slot (from the very first one on a
\* slot that still holds the marker placeholder) the attribute is absent if
\* the value applied is null or undefined, and otherwise present with the
\* value String(v)
C11_AttributeTracksValue ==
  [][\A p \in PartsOfKind("attr") :
       AppliesTo(p) =>
         LET v == AppliedValue(p)
             el == dom'[parts[p].element]
         IN IF IsNullish(v) THEN ~HasAttribute(el, parts[p].name)
            ELSE GetAttribute(el, parts[p].name) = Str(ToStr(v))]_vars

\* The listeners an element holds for the event name of Part p
ListenersOf(d, ps, p) == {l \in d[ps[p].element].listeners : l[1] = ps[p].name}

\* C12: an EventPart keeps at most one listener for its event name on its
\* element: after apply(f) with a function f exactly f, after apply(null),
\* apply(undefined) or remove() none
C12_OneListener ==
  [][\A p \in PartsOfKind("event") :
       /\ Cardinality(ListenersOf(dom', parts', p)) <= 1
       /\ AppliesTo(p) =>
            ListenersOf(dom', parts', p) =
              (IF AppliedValue(p).t = "function"
               THEN {<<parts[p].name, AppliedValue(p)>>} ELSE {})
       /\ (IsCall("remove") /\ lastCall'.part = p) => ListenersOf(dom', parts', p) = {}]_vars

\* A listener was swapped for another one: the old one detached, the new one
\* the only one attached
C12_Witness ==
  \E p \in PartsOfKind("event") :
    /\ lastCall.op = "apply" /\ lastCall.part = p /\ lastCall.value = Fn("g")
    /\ \E i \in 1..Len(log) : log[i].ev = "removeEventListener" /\ log[i].f = Fn("f")
    /\ ListenersOf(dom, parts, p) = {<<parts[p].name, Fn("g")>>}

\* The comments that stand before an anchor among its siblings
AnchorsBefore(d, marker) ==
  LET ch == d[d[marker].parent].children
  IN {i \in 1..(IndexOf(ch, marker) - 1) : d[ch[i]].type = "comment"}

\* Part p holds a text node
HoldsText(d, ps, p) == ps[p].node # 0 /\ d[ps[p].node].type = "text"

\* C13: a value slot with an attached anchor that is applied an array
\* reconciles it as a list: one item anchor per array element stands before
\* the slot's anchor, and the slot holds no text node with the stringified
\* array
C13_ArrayBecomesList ==
  [][\A p \in PartsOfKind("value") :
       (AppliesTo(p) /\ AppliedValue(p).t = "array" /\ dom[parts[p].marker].parent # 0) =>
         /\ Cardinality(AnchorsBefore(dom', parts[p].marker)) = Len(AppliedValue(p).items)
         /\ ~HoldsText(dom', parts', p)]_vars

\* C14: when a ValuePart that holds a nested instance is applied null,
\* undefined or a value that is no template, the nested instance is
\* destroyed before new content appears: remove() ran on each of its Parts,
\* its root is detached (before any node is inserted), and the ValuePart no
\* longer references it; and no ValuePart ever holds a plain node and a
\* nested instance at once
C14_NestedDestroyed ==
  [][/\ \A p \in PartsOfKind("value") :
          (/\ AppliesTo(p)
           /\ NestedInstanceOf(parts, p) # 0
           /\ ~IsTemplateRoot(World, AppliedValue(p))) =>
            LET inst == insts[NestedInstanceOf(parts, p)]
            IN /\ \A q \in Range(inst.parts) :
                    Events(log', LAMBDA e : e.ev = "remove" /\ e.part = q) # {}
               /\ dom'[inst.root].parent = 0
               /\ \A i \in Events(log', LAMBDA e : e.ev = "insertBefore") :
                    \E j \in Events(log', LAMBDA e : e.ev = "removeChild"
                                                       /\ e.node = inst.root) : j < i
               /\ parts'[p].nestedInstance = 0
     /\ \A p \in 1..Len(parts') :
          parts'[p].kind = "value" => (parts'[p].node = 0 \/ parts'[p].nestedInstance = 0)]_vars

\* A slot that showed the template now shows a text: the root was detached,
\* the inner Part removed, the text node held
C14_Witness ==
  \E p \in PartsOfKind("value") :
    /\ lastCall.op = "apply" /\ lastCall.part = p /\ lastCall.value = Str("a")
    /\ Events(log, LAMBDA e : e.ev = "removeChild" /\ e.node = InnerRoot) # {}
    /\ Events(log, LAMBDA e : e.ev = "remove") # {}
    /\ HoldsText(dom, parts, p)
    /\ dom[parts[p].node].parent # 0

\* Node a is the sibling right before node b
RightBefore(d, a, b) ==
  /\ d[a].parent # 0
  /\ d[a].parent = d[b].parent
  /\ LET ch == d[d[b].parent].children
     IN IndexOf(ch, a) + 1 = IndexOf(ch, b)

\* The instance inst displays values: it has one Part per value, and each
\* one holds an attached text node with the value as its data
Displays(d, ps, is, inst, values) ==
  /\ Len(is[inst].parts) = Len(values)
  /\ \A k \in 1..Len(values) :
       LET q == is[inst].parts[k]
       IN /\ HoldsText(d, ps, q)
          /\ d[ps[q].node].parent # 0
          /\ d[ps[q].node].data = ToStr(values[k])

\* C15: a value slot with an attached anchor that is empty or shows the
\* nested template (the states of a slot that alternates between the
\* template and null): after an apply of the template its root stands right
\* before the slot's anchor and its slots display the values of that render;
\* after an apply of null the root is detached
C15_ShowHideShow ==
  [][\A p \in PartsOfKind("value") :
       (/\ IsCall("apply") /\ lastCall'.part = p
        /\ dom[parts[p].marker].parent # 0
        /\ parts[p].node = 0) =>
         /\ lastCall'.value = NodeRef(InnerRoot) =>
              /\ RightBefore(dom', InnerRoot, parts[p].marker)
              /\ NestedInstanceOf(parts', p) # 0
              /\ Displays(dom', parts', insts', NestedInstanceOf(parts', p),
                          GetValues(World, InnerRoot))
         /\ lastCall'.value = Null => dom'[InnerRoot].parent = 0]_vars

\* C16: getValues(r) returns the values of the html call that returned r,
\* and no later html call (with another literal or with the same one, as for
\* the sibling items of a list) changes what getValues returns for a node
\* returned before
C16_ValuesStable ==
  [][IsCall("html") =>
       /\ GetValues(World', lastCall'.ret) = lastCall'.values
       /\ \A r \in returned : GetValues(World', r) = GetValues(World, r)]_vars

\* C17: a string or a number applied to a ValuePart that is empty creates one
\* text node with the data String(value); applied to a ValuePart that holds
\* a text node it creates, inserts and removes no node, keeps the held node
\* and leaves String(value) as its data
C17_TextInPlace ==
  [][\A p \in PartsOfKind("value") :
       (AppliesTo(p) /\ AppliedValue(p).t \in {"string", "number"}) =>
         /\ HoldsText(dom, parts, p) =>
              /\ Len(dom') = Len(dom)
              /\ Events(log', LAMBDA e : e.ev \in {"removeChild", "insertBefore"}) = {}
              /\ parts'[p].node = parts[p].node
              /\ dom'[parts[p].node].data = ToStr(AppliedValue(p))
         /\ (parts[p].node = 0 /\ parts[p].nestedInstance = 0) =>
              /\ Len(dom') = Len(dom) + 1
              /\ parts'[p].node = Len(dom')
              /\ dom'[Len(dom')].type = "text"
              /\ dom'[Len(dom')].data = ToStr(AppliedValue(p))]_vars

\* The counter went from 0 to 1: one write of the data of the attached text
\* node, no other DOM mutation
C17_Witness ==
  \E p \in PartsOfKind("value") :
    /\ lastCall.op = "apply" /\ lastCall.part = p /\ lastCall.value = Num(1)
    /\ HoldsText(dom, parts, p)
    /\ dom[parts[p].node].parent # 0
    /\ dom[parts[p].node].data = "1"
    /\ Events(log, LAMBDA e : IsMutation(e)) =
         Events(log, LAMBDA e : e.ev = "data" /\ e.node = parts[p].node /\ e.value = "1")
    /\ Events(log, LAMBDA e : IsMutation(e)) # {}

\* The slot of Part p is clear: no attribute, no listener, no content
SlotClear(d, ps, p) ==
  CASE ps[p].kind = "attr" -> ~HasAttribute(d[ps[p].element], ps[p].name)
    [] ps[p].kind = "event" -> ListenersOf(d, ps, p) = {}
    [] ps[p].kind = "value" -> ps[p].node = 0 /\ ps[p].nestedInstance = 0

\* C18: an update with a value array shorter than the Part list does not
\* throw; every Part is applied once, the Parts beyond the end of the array
\* with undefined, which clears their slots, the Parts inside its range with
\* their values, which they show
C18_ShortArray ==
  [][(IsCall("update") /\ Len(lastCall'.values) < Len(insts[1].parts)) =>
       /\ ~threw'
       /\ \A k \in 1..Len(insts[1].parts) :
            LET p == insts[1].parts[k]
                v == ValueAt(lastCall'.values, k)
            IN /\ Cardinality(Events(log', LAMBDA e : e.ev = "apply" /\ e.part = p)) = 1
               /\ \A i \in Events(log', LAMBDA e : e.ev = "apply" /\ e.part = p) :
                    log'[i].value = v
               /\ k > Len(lastCall'.values) => v = Undefined /\ SlotClear(dom', parts', p)
               /\ (k <= Len(lastCall'.values) /\ parts[p].kind = "attr") =>
                    GetAttribute(dom'[parts[p].element], parts[p].name) = Str(ToStr(v))
               /\ (k <= Len(lastCall'.values) /\ parts[p].kind = "value") =>
                    /\ HoldsText(dom', parts', p)
                    /\ dom'[parts'[p].node].data = ToStr(v)]_vars

\* An update with one value for three Parts took the attribute and the
\* listener away that an earlier call had set
C18_Witness ==
  /\ lastCall.op = "update" /\ Len(lastCall.values) = 1
  /\ ~threw
  /\ Events(log, LAMBDA e : e.ev = "removeAttribute") # {}
  /\ Events(log, LAMBDA e : e.ev = "removeEventListener") # {}
  /\ \A p \in PartsOfKind("attr") \cup PartsOfKind("event") : SlotClear(dom, parts, p)

\* C19: apply and remove on a Part whose anchor has no parent do not throw
\* and change nothing: neither the DOM nor any Part (held node, nested
\* instance, keyed map)
C19_DetachedNoOp ==
  [][\A p \in PartsOfKind("value") :
       (/\ (IsCall("apply") \/ IsCall("remove"))
        /\ lastCall'.part = p
        /\ dom[parts[p].marker].parent = 0) =>
         /\ ~threw'
         /\ dom' = dom
         /\ parts' = parts]_vars

(***************************************************************************)
(* Claims on the keyed list (checked under SpecList), continued.           *)
(***************************************************************************)
\* The Parts the entries of a keyed map refer to
MappedParts(m) == {m[i].part : i \in 1..Len(m)}

\* The Parts the step's apply call handled (reused from the old map or newly
\* created for an item) that end up in no map without remove() having been
\* called on them
Orphans ==
  {q \in 1..Len(parts') :
     /\ (\/ q \in MappedParts(parts[list].keyMap)
         \/ (q > Len(parts) /\ dom'[parts'[q].marker].data = "item-marker"))
     /\ q \notin MappedParts(parts'[list].keyMap)
     /\ Events(log', LAMBDA e : e.ev = "remove" /\ e.part = q) = {}}

\* The index of the last occurrence of a key in the keys of one call
LastIndex(keys, key) ==
  CHOOSE j \in 1..Len(keys) : keys[j] = key /\ \A i \in (j + 1)..Len(keys) : keys[i] # key

\* C20: an apply with two items of the same key does not throw; the map entry
\* of each key refers to the Part created for the last occurrence of the key
\* and holds that item; the Part of every earlier occurrence is in no map,
\* had no remove() called, and its anchor and content stay in the document
C20_KeyCollision ==
  [][(IsCall("listApply") /\ HasDuplicate(lastCall'.keys)) =>
       LET keys == lastCall'.keys
           items == lastCall'.items
           map == parts'[list].keyMap
       IN /\ ~threw'
          /\ {map[i].key : i \in 1..Len(map)} = Range(keys)
          /\ \A key \in Range(keys) :
               LET j == LastIndex(keys, key)
                   entry == MapGet(map, key)
               IN /\ entry.value = items[j]
                  /\ (\E i \in 1..(j - 1) : keys[i] = key) =>
                       /\ entry.part > Len(parts)
                       /\ Events(log', LAMBDA e : e.ev = "apply" /\ e.part = entry.part
                                                  /\ e.value = items[j]) # {}
          /\ Cardinality(Orphans) = Len(keys) - Cardinality(Range(keys))
          /\ \A q \in Orphans :
               /\ dom'[parts'[q].marker].parent # 0
               /\ parts'[q].node # 0
               /\ dom'[parts'[q].node].parent # 0]_vars

\* The Part of {key: 'a'} was reused for the first occurrence and then lost
\* its map entry to the Part of the second occurrence
C20_Witness ==
  /\ lastCall.op = "listApply" /\ lastCall.items = <<ItemA, ItemA2>>
  /\ ~threw
  /\ Events(log, LAMBDA e : e.ev = "apply" /\ e.value = ItemA) = {}
  /\ Len(parts[list].keyMap) = 1
  /\ parts[list].keyMap[1].value = ItemA2
  /\ \E q \in 1..Len(parts) :
       /\ parts[q].kind = "value" /\ q \notin MappedParts(parts[list].keyMap)
       /\ parts[q].node # 0 /\ dom[parts[q].node].parent # 0
       /\ dom[parts[q].marker].parent # 0

(***************************************************************************)
(* Claims on compile (checked under SpecCompile).                          *)
(***************************************************************************)
\* The nodes the parser created for the children of the fragment of lit that
\* are no blank text, in their order, when the heap held base nodes before
TopLevel(lit, base) ==
  LET bp == Parsed(lit)
      js == SelectSeq([j \in 1..Len(bp) |-> j],
                      LAMBDA j : bp[j].up = 0
                                 /\ ~(bp[j].type = "text" /\ bp[j].data \in {"", " ", "\n"}))
  IN [i \in 1..Len(js) |-> base + js[i]]

\* C21: the first html call of a literal compiles one element as root,
\* tagged as a template root: a new empty element for a fragment without a
\* non-blank child, the child itself when the only non-blank child is an
\* element, and otherwise a new container that holds all non-blank children
\* in their order
C21_OneElementRoot ==
  [][\A lit \in Literals :
       (IsCall("html") /\ lastCall'.lit = lit /\ cachedElements[lit] = 0) =>
         LET kids == TopLevel(lit, Len(dom))
             root == lastCall'.ret
             fresh == Len(dom) + Len(Parsed(lit)) + 1
         IN /\ cachedElements'[lit] = root
            /\ dom'[root].type = "element"
            /\ dom'[root].isTemplateRoot
            /\ IF Len(kids) = 1 /\ dom'[kids[1]].type = "element"
               THEN root = kids[1]
               ELSE /\ root = fresh
                    /\ Len(dom') = fresh
                    /\ dom'[root].children = kids
                    /\ \A i \in 1..Len(kids) : dom'[kids[i]].parent = root]_vars

\* Every shape was compiled: the literals with a blank text around an
\* element, with several children, and the empty one
C21_Witness ==
  /\ cachedElements["W"] # 0 /\ dom[cachedElements["W"]].tag = "p"
  /\ cachedElements["M"] # 0 /\ Len(dom[cachedElements["M"]].children) = 3
  /\ cachedElements["E"] # 0 /\ dom[cachedElements["E"]].children = <<>>

(***************************************************************************)
(* Claims on debounceFn (checked under SpecDebounceFair).                  *)
(***************************************************************************)
\* The runs of execute that belong to the i-th call of d
RunsOf(i) == {k \in 1..Len(executed) : executed[k].call = i}

\* The i-th call ends a burst: the next call came more than Delay later, or
\* there is none and more than Delay has passed
EndsBurst(i) ==
  IF i < Len(callLog) THEN callLog[i + 1].t > callLog[i].t + Delay
  ELSE now > callLog[i].t + Delay

\* At most one timer is pending; execute runs with the receiver and the
\* arguments of a call, not before Delay has passed since it and only if no
\* call followed within Delay; no call is executed twice, and a call that
\* ends a burst has been executed
C22_Safe ==
  /\ Cardinality(Pending(timers)) <= 1
  /\ \A k \in 1..Len(executed) :
       LET e == executed[k]
           c == callLog[e.call]
       IN /\ e.this = c.this /\ e.args = c.args
          /\ e.t >= c.t + Delay
          /\ e.call < Len(callLog) => callLog[e.call + 1].t >= c.t + Delay
  /\ \A i \in 1..Len(callLog) :
       /\ Cardinality(RunsOf(i)) <= 1
       /\ EndsBurst(i) => Cardinality(RunsOf(i)) = 1

\* C22: calls of d closer to one another than Delay lead to one run of
\* execute, at least Delay after the last of them and with its receiver and
\* arguments; at most one timer is pending at any time; and a call that no
\* other call follows is eventually executed
C22_Debounce ==
  /\ []C22_Safe
  /\ \A n \in 1..(MaxDebounceCalls + 1) :
       (Len(callLog) = n) ~> (Len(callLog) > n \/ RunsOf(n) # {})

\* Three calls in one burst, then one run: that of the third call
C22_Witness ==
  /\ Len(callLog) = 3
  /\ callLog[2].t = callLog[1].t + 1 /\ callLog[3].t = callLog[2].t + 1
  /\ callLog[3].this # callLog[1].this /\ callLog[3].args # callLog[1].args
  /\ Len(executed) = 1
  /\ executed[1].call = 3
  /\ executed[1].this = callLog[3].this /\ executed[1].args = callLog[3].args

(***************************************************************************)
(* Claims on decorated properties.                                         *)
(***************************************************************************)
\* The property the last call was about
Touched == prop[lastCall.key]

\* C28: an attribute written from a property of type String, Number or
\* Boolean parses back to the value that was assigned: after element[key] = v
\* has written the attribute, parseAttributeValue of the attribute text, with
\* the property's type, equals v
C28_RoundTrip ==
  (/\ lastCall.op = "assign"
   /\ ~Touched.threw
   /\ Touched.attr # Null
   /\ Touched.attr = Str(StringifyPropertyValue(lastCall.value, SettingOf(lastCall.key).type)))
  => ParseAttributeValue(Touched.attr, SettingOf(lastCall.key).type) = lastCall.value

\* The hooks run and the updates requested for a property
Effects(c) == <<c.before, c.after, c.requested>>

\* C29: the first assignment of a readonly property succeeds; a later one,
\* direct or caused by a change of its attribute, throws and leaves the
\* stored value, the reflection guard, the hook counts and the update
\* requests as they were before the call (and the attribute too when the
\* assignment is direct), so that the next change is processed normally
C29_ReadonlyFrame ==
  [][\A key \in PropertyKeys :
       (SettingOf(key).readonly /\ prop'[key] # prop[key]) =>
         IF ~prop[key].own
         THEN /\ prop'[key].own
              /\ ~prop'[key].threw
         ELSE /\ prop'[key].value = prop[key].value
              /\ prop'[key].guard = prop[key].guard
              /\ Effects(prop'[key]) = Effects(prop[key])
              /\ lastCall'.op = "assign" => /\ prop'[key].threw
                                            /\ prop'[key].attr = prop[key].attr]_vars

(***************************************************************************)
(* Claims on the compile cache.                                            *)
(***************************************************************************)
\* The nodes of the tree under (and including) root
TreeOf(d, root) == {n \in 1..Len(d) : Contains(d, root, n)}

\* C30: a compiled root that is in the compile cache is changed by no html()
\* call and by no construction, update or removal of a TemplateInstance: the
\* cache entry of its literal stays, the root keeps its parent, and every
\* node of its tree keeps its attributes, its children and its text
C30_CompiledRootFrozen ==
  [][\A lit \in Literals :
       cachedElements[lit] # 0 =>
         /\ cachedElements'[lit] = cachedElements[lit]
         /\ dom'[cachedElements[lit]].parent = dom[cachedElements[lit]].parent
         /\ \A n \in TreeOf(dom, cachedElements[lit]) :
              /\ dom'[n].attrs = dom[n].attrs
              /\ dom'[n].children = dom[n].children
              /\ dom'[n].data = dom[n].data]_vars

(***************************************************************************)
(* Claims on custom elements.                                              *)
(***************************************************************************)
\* The element a step calls update() on (by connectedCallback, by update()
\* itself or by the timer of requestUpdate), 0 when the step calls none
Updated == IF lastCall'.op \in {"connected", "update", "timer"} /\ elems' # elems
           THEN lastCall'.el ELSE 0

\* C24: whatever connectedCallback, disconnectedCallback, update and
\* requestUpdate calls an element sees, firstRender() has run once and the
\* first-render event has been dispatched once as soon as update() has run
\* once, and neither has happened before; so both happen in the first
\* update() and never again
C24_FirstRenderOnce ==
  \A e \in DOMAIN elems :
    /\ elems[e].firstRenders = (IF elems[e].updates = 0 THEN 0 ELSE 1)
    /\ elems[e].dispatched = (IF elems[e].updates = 0 THEN 0 ELSE 1)

\* An element that was updated, disconnected and updated again
C24_Witness ==
  \E e \in DOMAIN elems :
    /\ elems[e].updates >= 2
    /\ ~elems[e].connected
    /\ elems[e].firstRenders = 1
    /\ elems[e].dispatched = 1

\* The updates of instance inst in a log
UpdatesOf(lg, inst) == Events(lg, LAMBDA ev : ev.ev = "update" /\ ev.inst = inst)

\* C26: an element creates one TemplateInstance and appends the rendered
\* root once, in its first update(); every later update() keeps that
\* instance, calls update(values) on it, creates no instance and appends
\* and removes no root
C26_OneInstance ==
  [][\A e \in DOMAIN elems :
       /\ elems'[e].created = (IF elems'[e].updates = 0 THEN 0 ELSE 1)
       /\ elems'[e].appended = elems'[e].created
       /\ (Updated = e /\ elems[e].updates >= 1) =>
            /\ elems'[e].templateInstance = elems[e].templateInstance
            /\ UpdatesOf(log', elems[e].templateInstance) # {}
            /\ \A i \in 1..Len(log') :
                 log'[i].ev \in {"append", "removeChild"} =>
                   log'[i].node # insts[elems[e].templateInstance].root]_vars

\* An element after its third update()
C26_Witness ==
  \E e \in DOMAIN elems :
    /\ elems[e].updates >= 3
    /\ elems[e].created = 1
    /\ elems[e].appended = 1

\* C25: firstRender() runs only after the first render is complete: in the
\* update() that calls it, the element's TemplateInstance has been updated,
\* and every Part of the instance has had its initial value applied, before
\* the call
C25_FirstRenderAfterRender ==
  [][\A e \in DOMAIN elems :
       \A i \in 1..Len(log') :
         (log'[i].ev = "firstRender" /\ log'[i].el = e) =>
           /\ \E j \in 1..(i - 1) :
                log'[j].ev = "update" /\ log'[j].inst = elems'[e].templateInstance
           /\ \A k \in 1..Len(insts'[elems'[e].templateInstance].parts) :
                \E j \in 1..(i - 1) :
                  /\ log'[j].ev = "apply"
                  /\ log'[j].part = insts'[elems'[e].templateInstance].parts[k]]_vars

\* C27: after each update() that returns normally the @query property of
\* the element is the element root.querySelector("p") finds in the tree as
\* just rendered, or null when there is none
C27_QueryIsCurrent ==
  [][(Updated # 0 /\ ~threw') =>
       elems'[Updated].para =
         QuerySelector(dom', insts'[elems'[Updated].templateInstance].root, "p")]_vars

\* The pending timers of element e
PendingOf(e) == {id \in Pending(timers) : timers[id].this = e}

\* The requests of the same element that came after the i-th request
LaterRequests(i) ==
  {j \in (i + 1)..Len(callLog) : callLog[j].this = callLog[i].this}

\* At most one update of an element is pending; an update the timer runs is
\* that of a request of the element which no request of the element followed
\* within Delay, and it runs not before Delay has passed and only once; an
\* element with a change that no update() has followed yet has its update
\* pending
C23_Safe ==
  /\ \A e \in DOMAIN elems :
       /\ Cardinality(PendingOf(e)) <= 1
       /\ elems[e].dirty => PendingOf(e) # {}
  /\ \A k \in 1..Len(executed) :
       /\ executed[k].this = callLog[executed[k].call].this
       /\ executed[k].t >= callLog[executed[k].call].t + Delay
       /\ \A j \in LaterRequests(executed[k].call) :
            callLog[j].t >= callLog[executed[k].call].t + Delay
  /\ \A i \in 1..Len(callLog) : Cardinality(RunsOf(i)) <= 1

\* The values render() returns for the properties of el, given the compiled
\* root of the inner template
Latest(el, inner) ==
  IF Truthy(el.props.show.value) THEN <<NodeRef(inner)>> ELSE <<Null>>

\* The update() a timer runs renders the property values of that moment,
\* and a step of one element changes neither the timers nor the state of
\* another element
C23_Step ==
  /\ \A id \in 1..Len(timers) :
       timers'[id] # timers[id] => timers[id].this = lastCall'.el
  /\ \A x \in DOMAIN elems :
       elems'[x] # elems[x] => x = lastCall'.el
  /\ (lastCall'.op = "timer" /\ executed' # executed) =>
       LET e == lastCall'.el
       IN /\ \E i \in 1..Len(log') :
               /\ log'[i].ev = "update"
               /\ log'[i].inst = elems'[e].templateInstance
               /\ log'[i].values = Latest(elems[e], cachedElements'["B"])
          /\ Truthy(elems[e].props.show.value) =>
               metadataMap'[cachedElements'["B"]] = <<elems[e].props.count.value>>
          /\ elems'[e].updates = elems[e].updates + 1

\* C23: changes of rerender properties of one element that follow one
\* another within the debounce delay lead to one update() run by the timer,
\* which renders the latest property values; every change is eventually
\* followed by an update() of its element; and neither depends on the
\* pending updates of the other element
C23_DebouncedRerender ==
  /\ []C23_Safe
  /\ [][C23_Step]_vars
  /\ \A e \in Elements : elems[e].dirty ~> ~elems[e].dirty

\* Two changes of element 1 within the delay while an update of element 2
\* is pending, then one update of each: that of element 1 is the update of
\* its second request
C23_Witness ==
  /\ Len(callLog) = 3
  /\ Cardinality({i \in 1..3 : callLog[i].this = 1}) = 2
  /\ \A i \in 1..3 : callLog[i].t <= callLog[1].t + 1
  /\ Len(executed) = 2
  /\ \A k \in 1..2 : LaterRequests(executed[k].call) = {}
  /\ \A e \in Elements : elems[e].updates = 1 /\ ~elems[e].dirty

(***************************************************************************)
(* The positional ListPart (functions/part/parts/nested-part.ts): item i   *)
(* of the array is held by the i-th item Part.  Its state machine drives   *)
(* one such Part whose anchor is the last child of a <ul> that starts with *)
(* a fixed <li>: <ul><li></li><!--list-marker--></ul>.                      *)
(***************************************************************************)
MaxSiblingCalls == 3

\* new ListPart(marker, helpers): no item Part, no item value
NewListPart(marker) ==
  [kind |-> "positional", marker |-> marker, itemParts |-> <<>>,
   itemValues |-> <<>>]

\* node.previousSibling (0: null)
PreviousSibling(d, node) ==
  IF d[node].parent = 0 THEN 0
  ELSE With(d[d[node].parent].children,
            LAMBDA cs : IF IndexOf(cs, node) = 1 THEN 0 ELSE cs[IndexOf(cs, node) - 1])

RECURSIVE ClearEach(_, _, _)
\* for (const part of this.itemParts) part.clear()
ClearEach(w, ps, k) ==
  IF w.threw \/ k > Len(ps) THEN w
  ELSE ClearEach(ClearPart(w, ps[k]), ps, k + 1)

RECURSIVE RemovePrevious(_, _)
\* while (node && !(node instanceof Comment && node === this.marker)): node
\* is a previous sibling of the marker, never the marker itself
RemovePrevious(w, node) ==
  IF node = 0 THEN w
  ELSE With(PreviousSibling(w.dom, node),
            LAMBDA prev : RemovePrevious(RemoveChild(w, w.dom[node].parent, node), prev))

PositionalClear(w, p) ==
  With(ClearEach(w, w.parts[p].itemParts, 1),
       LAMBDA w1 :
         IF w1.threw THEN w1
         ELSE RemovePrevious([w1 EXCEPT !.parts[p].itemParts = <<>>,
                                         !.parts[p].itemValues = <<>>],
                             PreviousSibling(w1.dom, w1.parts[p].marker)))

RECURSIVE RemoveFrom(_, _, _, _)
\* for (let i = newLength; i < oldLength; i++) this.itemParts[i].remove()
RemoveFrom(w, ps, i, oldLength) ==
  IF w.threw \/ i >= oldLength THEN w
  ELSE RemoveFrom(RemovePart(w, ps[i + 1]), ps, i + 1, oldLength)

\* The else branch of the loop: a new item anchor before the marker and a
\* value Part on it
PositionalCreate(w, p, item) ==
  With(CreateNode(w, MkNode("comment", "", "item-marker", <<>>)),
       LAMBDA c :
         With(PartFactory(IF c.dom[c.parts[p].marker].parent = 0 THEN c
                          ELSE InsertBefore(c, c.dom[c.parts[p].marker].parent,
                                            c.ret, c.parts[p].marker),
                          Descriptor("value", c.ret, 0, "")),
              LAMBDA f :
                With(ApplyPart(f, f.ret, item, Undefined),
                     LAMBDA a : IF a.threw THEN a
                                ELSE [a EXCEPT !.parts[p].itemParts = Append(@, f.ret)])))

RECURSIVE PositionalLoop(_, _, _, _, _)
\* for (let i = 0; i < newLength; i++), the removal of the leftovers, and
\* this.itemValues = newValue.slice()
PositionalLoop(w, p, items, i, oldLength) ==
  IF w.threw THEN w
  ELSE IF i >= Len(items)
  THEN With(IF Len(items) < oldLength
            THEN With(RemoveFrom(w, w.parts[p].itemParts, Len(items), oldLength),
                      LAMBDA r : IF r.threw THEN r
                                 ELSE [r EXCEPT !.parts[p].itemParts =
                                                  SubSeq(@, 1, Len(items))])
            ELSE w,
            LAMBDA w1 : IF w1.threw THEN w1
                        ELSE [w1 EXCEPT !.parts[p].itemValues = items])
  ELSE PositionalLoop(IF i < oldLength
                      THEN ApplyPart(w, w.parts[p].itemParts[i + 1], items[i + 1],
                                     IF i < Len(w.parts[p].itemValues)
                                     THEN w.parts[p].itemValues[i + 1] ELSE Undefined)
                      ELSE PositionalCreate(w, p, items[i + 1]),
                      p, items, i + 1, oldLength)

PositionalApply(w, p, newValue) ==
  IF newValue.t # "array" THEN PositionalClear(w, p)
  ELSE PositionalLoop(w, p, newValue.items, 0, Len(w.parts[p].itemParts))

PositionalRemove(w, p) ==
  With(PositionalClear(w, p),
       LAMBDA w1 : IF w1.threw THEN w1 ELSE RemoveMarker(w1, p))

\* <ul><li></li><!--list-marker--></ul>: node 2 is the fixed <li>
SiblingHost ==
  <<[MkNode("element", "ul", "", <<>>) EXCEPT !.children = <<2, 3>>],
    [MkNode("element", "li", "", <<>>) EXCEPT !.parent = 1],
    [MkNode("comment", "", "list-marker", <<>>) EXCEPT !.parent = 1]>>

FixedItem == CHOOSE n \in 1..Len(SiblingHost) : SiblingHost[n].tag = "li"

InitSibling ==
  /\ NoOutside
  /\ dom = SiblingHost
  /\ parts = <<NewListPart(3)>>
  /\ insts = <<>>
  /\ cachedElements = [l \in Literals |-> 0]
  /\ metadataMap = <<>>
  /\ log = <<>>
  /\ threw = FALSE
  /\ returned = {}
  /\ tops = {}
  /\ lastCall = [op |-> "init"]
  /\ calls = 0
  /\ collided = FALSE
  /\ list = 1

\* The values the model passes to the positional ListPart.apply: arrays of
\* strings, and two values that are not arrays
SiblingInputs ==
  {Arr(0, <<>>), Arr(0, <<Str("a")>>), Arr(0, <<Str("b")>>),
   Arr(0, <<Str("a"), Str("b")>>), Arr(0, <<Str("b"), Str("a")>>), Null, Str("a")}

\* listPart.apply(value)
PositionalApplyCall(value) ==
  /\ calls < MaxSiblingCalls
  /\ calls' = calls + 1
  /\ With(PositionalApply(World, list, value),
          LAMBDA w : /\ Commit(w)
                     /\ lastCall' = [op |-> "positionalApply", value |-> value])
  /\ UNCHANGED <<returned, tops, list, collided, outside>>

\* listPart.clear()
PositionalClearCall ==
  /\ calls < MaxSiblingCalls
  /\ calls' = calls + 1
  /\ With(PositionalClear(World, list),
          LAMBDA w : /\ Commit(w)
                     /\ lastCall' = [op |-> "positionalClear"])
  /\ UNCHANGED <<returned, tops, list, collided, outside>>

\* listPart.remove()
PositionalRemoveCall ==
  /\ calls < MaxSiblingCalls
  /\ calls' = calls + 1
  /\ With(PositionalRemove(World, list),
          LAMBDA w : /\ Commit(w)
                     /\ lastCall' = [op |-> "positionalRemove"])
  /\ UNCHANGED <<returned, tops, list, collided, outside>>

NextSibling ==
  \/ \E value \in SiblingInputs : PositionalApplyCall(value)
  \/ PositionalClearCall
  \/ PositionalRemoveCall

SpecSibling == InitSibling /\ [][NextSibling]_vars

\* C31: no Part operation removes or changes a node the Part did not insert:
\* the fixed <li> that precedes the list anchor is still the first child of
\* the <ul>, unchanged, after every apply, clear and remove of the ListPart
C31_StaticSiblingKept ==
  lastCall.op \in {"positionalApply", "positionalClear", "positionalRemove"}
    => /\ dom[FixedItem] = SiblingHost[FixedItem]
       /\ dom[1].children # <<>>
       /\ dom[1].children[1] = FixedItem

\* The item anchors among the siblings of the list anchor, in document order
AnchorSeq(d, marker) ==
  SelectSeq(d[d[marker].parent].children,
            LAMBDA n : d[n].type = "comment" /\ d[n].data = "item-marker")

\* The Parts that were in the key map before the call and are in it after
ReusedParts ==
  {q \in 1..Len(parts) :
     /\ \E i \in 1..Len(parts[list].keyMap) : parts[list].keyMap[i].part = q
     /\ \E i \in 1..Len(parts'[list].keyMap) : parts'[list].keyMap[i].part = q}

C33_AnchorsInArrayOrder ==
  [][(IsCall("listApply") /\ ~threw' /\ ~collided') =>
       LET after == AnchorSeq(dom', parts[list].marker)
           km == parts'[list].keyMap
       IN /\ Len(after) = Len(lastCall'.items)
          /\ \A i \in 1..Len(km) :
               /\ km[i].value = lastCall'.items[i]
               /\ after[i] = parts'[km[i].part].marker]_vars

\* C34: removed is a terminal state of a Part: an apply that follows remove()
\* on the same Part changes no node of the document (no attribute is set, no
\* listener attached, no node inserted), and the anchor of an anchored Part
\* stays out of its parent
C34_RemovedIsTerminal ==
  [][\A p \in HostParts :
       (/\ lastCall.op = "remove" /\ lastCall.part = p /\ ~threw
        /\ IsCall("apply") /\ lastCall'.part = p) =>
         /\ \A n \in 1..Len(dom) : dom'[n] = dom[n]
         /\ parts[p].kind = "value" => dom'[parts[p].marker].parent = 0]_vars

(***************************************************************************)
(* Claims on the @property decorator (checked under SpecProperty),         *)
(* continued.                                                              *)
(***************************************************************************)
RECURSIVE DeepEqual(_, _)
\* a and b are equal as data: the same primitive, both null, arrays with
\* deep-equal items, objects with deep-equal keys
DeepEqual(a, b) ==
  IF a.t # b.t THEN FALSE
  ELSE IF a.t = "array"
  THEN /\ Len(a.items) = Len(b.items)
       /\ \A i \in 1..Len(a.items) : DeepEqual(a.items[i], b.items[i])
  ELSE IF a.t = "object" THEN DeepEqual(a.key, b.key)
  ELSE a = b

\* What an assignment can change of a property
Observable(c) == <<c.own, c.value, c.attr, c.before, c.after, c.requested>>

\* C35: an assignment to a rerender property (not readonly) calls
\* requestUpdate exactly once if and only if it is not the initial assignment
\* and the new value is not deep-equal to the stored one; an assignment of a
\* deep-equal value changes nothing (value, attribute, hooks, requests); the
\* initial assignment stores the value and runs the hooks, without a request
C35_RequestOnChange ==
  [][\A key \in PropertyKeys :
       (/\ IsCall("assign") /\ lastCall'.key = key
        /\ SettingOf(key).rerender /\ ~SettingOf(key).readonly) =>
         LET c == prop[key]
             d == prop'[key]
             value == lastCall'.value
             equal == DeepEqual(value, c.value)
         IN /\ d.requested - c.requested = IF c.own /\ ~equal THEN 1 ELSE 0
            /\ equal => Observable(d) = Observable(c)
            /\ (~c.own /\ ~equal) =>
                 /\ d.own /\ d.value = value
                 /\ d.before = c.before + 1 /\ d.after = c.after + 1]_vars

\* C40: assigning null to a decorated property (not readonly) never throws,
\* whatever the property holds (undefined, null, a primitive, an array or an
\* object): the assignment completes and the getter returns null afterwards
C40_NullAssignable ==
  [][\A key \in PropertyKeys :
       (/\ IsCall("assign") /\ lastCall'.key = key /\ lastCall'.value = Null
        /\ ~SettingOf(key).readonly) =>
         /\ ~prop'[key].threw
         /\ prop'[key].value = Null]_vars

\* How often an event occurs in the trace of an operation
Count(tr, ev) == Cardinality({i \in 1..Len(tr) : tr[i] = ev})

\* C36: reflection terminates without a loop: one property assignment causes
\* at most one write of the reflected attribute and no re-entrant assignment;
\* one external change of the attribute causes at most one assignment and no
\* write of the attribute; afterwards the internal-update guard is false
C36_ReflectionTerminates ==
  [][\A key \in PropertyKeys :
       /\ (IsCall("assign") /\ lastCall'.key = key) =>
            /\ Count(prop'[key].trace, "write") <= 1
            /\ Count(prop'[key].trace, "set") = 1
            /\ ~prop'[key].guard
       /\ ((IsCall("setAttribute") \/ IsCall("removeAttribute")) /\ lastCall'.key = key) =>
            /\ Count(prop'[key].trace, "write") = 0
            /\ Count(prop'[key].trace, "set") <= 1
            /\ ~prop'[key].guard]_vars

(***************************************************************************)
(* Claims on the Parts (checked under SpecPart), continued.                *)
(***************************************************************************)
\* C37: after ValuePart.apply(v) has returned for a v that is neither null
\* nor undefined, the Part remembers v as the value last applied, on the
\* apply that first inserts content as on later ones; an immediately repeated
\* apply(v) touches neither the Part nor the DOM
C37_LastValueRemembered ==
  [][\A p \in PartsOfKind("value") :
       (/\ IsCall("apply") /\ lastCall'.part = p
        /\ ~IsNullish(lastCall'.value) /\ ~threw') =>
         /\ parts'[p].value = lastCall'.value
         /\ (lastCall.op = "apply" /\ lastCall.part = p /\ ~threw
             /\ lastCall.value = lastCall'.value) =>
              /\ parts' = parts
              /\ dom' = dom
              /\ Events(log', IsMutation) = {}]_vars

(***************************************************************************)
(* Claims on the @debounce decorator (checked under SpecDebounceFair): the *)
(* receivers are two instances of the class with the decorated method.     *)
(***************************************************************************)
\* C38: a decorated method is debounced per instance: a call on one instance
\* never cancels the pending call of another instance (the timer of a call
\* is cleared by a later call on the same receiver only), so that both run
C38_PerInstance ==
  \A id \in 1..Len(timers) :
    timers[id].state = "cleared" =>
      /\ timers[id].call < Len(callLog)
      /\ callLog[timers[id].call + 1].this = timers[id].this

(***************************************************************************)
(* The keyed ListPart given arrays with holes: the state machine of        *)
(* SpecList with arrays that contain null and undefined items.             *)
(***************************************************************************)
SparseInputs ==
  {<<>>, <<ItemA>>, <<Null>>, <<Undefined>>, <<ItemA, Null>>, <<Null, ItemA>>,
   <<ItemA, Undefined, ItemB>>, <<ItemText, ItemB>>}

\* listPart.apply(items)
SparseApplyCall(items) ==
  /\ calls < MaxListCalls
  /\ calls' = calls + 1
  /\ With(ApplyPart(World, list, Arr(0, items), Undefined),
          LAMBDA w : /\ Commit(w)
                     /\ collided' = (collided \/ HasDuplicate(KeysOf(w.log)))
                     /\ lastCall' = [op |-> "sparseApply", items |-> items,
                                     keys |-> KeysOf(w.log)])
  /\ UNCHANGED <<returned, tops, list, outside>>

NextSparse == \E items \in SparseInputs : SparseApplyCall(items)

SpecSparse == InitList /\ [][NextSparse]_vars

\* C39: ListPart.apply does not throw for an array with null or undefined
\* items: such an item is keyed by its index, has an item Part of its own in
\* the key map, and renders nothing
C39_HolesTolerated ==
  [][IsCall("sparseApply") =>
       /\ ~threw'
       /\ \A i \in 1..Len(lastCall'.items) :
            IsNullish(lastCall'.items[i]) =>
              /\ lastCall'.keys[i] = Num(i - 1)
              /\ MapHas(parts'[list].keyMap, Num(i - 1))
              /\ parts'[MapGet(parts'[list].keyMap, Num(i - 1)).part].node = 0]_vars

=============================================================================
